---------------------------- MODULE Spec2Model ----------------------------
(***************************************************************************)
(* Snippet field detection and path-addressed JSON mutation.               *)
(*                                                                         *)
(* JavaScript values are tagged records:                                   *)
(*   undefined, null, boolean b, number n (or NaN), string s,              *)
(*   object (own keys ks in property order, values vs),                    *)
(*   array  (elements items, holes held as undefined, plus the own         *)
(*           non-index properties ks/vs an assignment can create).         *)
(* A path segment is a string value or a number value.                     *)
(***************************************************************************)
EXTENDS Integers, Sequences, FiniteSets, TLC

VARIABLES
    pc,             \* which operation the run is at
    root,           \* setIn: the value written into
    path,           \* setIn: the path written at
    newValue,       \* setIn: the value written
    result,         \* setIn: the value returned
    snippet,        \* detectSnippetConfigFromJson: the value detected from
    detected,       \* detectSnippetConfigFromJson: {rootKey, fields} returned
    snippetText,    \* AdminView: text of the snippet editor
    snippetValue,   \* AdminView: parsed snippet (undefined before a parse)
    detectedFields, \* AdminView: field tree being edited (null before a parse)
    rootKey,        \* AdminView: detected root key (null before a parse)
    parseError,     \* AdminView / EditorView: message of the last failed parse
    steps,          \* handlers run so far
    snippets,       \* snippet store: the stored snippets, in list order
    rawInput,       \* EditorView: text of the input editor
    inputJson,      \* EditorView: parsed input (undefined when absent or invalid)
    outputJson,     \* EditorView: composed document (undefined before a parse)
    fileType,       \* EditorView: selected file type ('all' at start)
    original,       \* getChangedLines: first value compared
    modified,       \* getChangedLines: second value compared
    changedPaths,   \* getChangedLines: paths findDifferences gathered
    changedLines,   \* getChangedLines: the set returned to the caller
    editingId,      \* AdminView: id of the stored snippet being edited, or null
    duplicateRootKeyModal,  \* AdminView: the replace/drop decision, when open
    color,          \* color utilities: the string handed in
    alpha,          \* hasAlphaChannel: what it returned
    hex             \* convertColorToHex: what it returned

setInVars == <<root, path, newValue, result>>
detectVars == <<snippet, detected>>
adminVars == <<snippetText, snippetValue, detectedFields, rootKey, parseError, steps>>
adminVars_NoSteps == <<snippetText, snippetValue, detectedFields, rootKey, parseError>>
editorVars == <<snippets, rawInput, inputJson, outputJson, fileType>>
diffVars == <<original, modified, changedPaths, changedLines>>
storeVars == <<editingId, duplicateRootKeyModal>>
colorVars == <<color, alpha, hex>>
vars == <<pc, root, path, newValue, result, snippet, detected,
          snippetText, snippetValue, detectedFields, rootKey, parseError, steps,
          snippets, rawInput, inputJson, outputJson, fileType,
          original, modified, changedPaths, changedLines,
          editingId, duplicateRootKeyModal, color, alpha, hex>>

Idle == [t |-> "undefined"]

---------------------------------------------------------------------------
(* Bounds of the model *)

MaxLen == 2         \* longest array of the sampled documents
MaxPathLen == 2     \* longest path handed to setIn
MaxKeys == 2        \* most keys of a sampled object built over a key set
MaxSteps == 4       \* most handler runs of one admin session

---------------------------------------------------------------------------
(* JavaScript values *)

Undef == [t |-> "undefined"]
Null == [t |-> "null"]
Bool(b) == [t |-> "boolean", b |-> b]
Num(n) == [t |-> "number", n |-> n]
NaN == [t |-> "number", nan |-> TRUE]
Str(s) == [t |-> "string", s |-> s]
Obj(ks, vs) == [t |-> "object", ks |-> ks, vs |-> vs]
EmptyObj == Obj(<<>>, <<>>)
Arr(items) == [t |-> "array", items |-> items, ks |-> <<>>, vs |-> <<>>]

IsArray(v) == v.t = "array"
IsNaN(v) == v.t = "number" /\ "nan" \in DOMAIN v

\* one character of a string
CharAt(s, i) == SubSeq(s, i, i)

DigitChars == "0123456789"

IsDigit(c) == \E d \in 1..10 : CharAt(DigitChars, d) = c

DigitVal(c) == (CHOOSE d \in 1..10 : CharAt(DigitChars, d) = c) - 1

IsDigits(s) == \A i \in 1..Len(s) : IsDigit(CharAt(s, i))

RECURSIVE NatToString(_)
NatToString(n) ==
    IF n < 10 THEN CharAt(DigitChars, n + 1)
    ELSE NatToString(n \div 10) \o CharAt(DigitChars, (n % 10) + 1)

RECURSIVE DigitsToNat(_)
DigitsToNat(s) ==
    IF Len(s) = 0 THEN 0
    ELSE 10 * DigitsToNat(SubSeq(s, 1, Len(s) - 1)) + DigitVal(CharAt(s, Len(s)))

\* String(v) of a primitive
String(v) ==
    CASE v.t = "string" -> v.s
      [] v.t = "number" ->
            IF IsNaN(v) THEN "NaN"
            ELSE IF v.n < 0 THEN "-" \o NatToString(-v.n) ELSE NatToString(v.n)
      [] v.t = "boolean" -> IF v.b THEN "true" ELSE "false"
      [] v.t = "null" -> "null"
      [] OTHER -> "undefined"

\* Number(s) of a string: the empty string is 0, a digit string its value,
\* anything else of the sampled alphabet (no sign, space, point, exponent) NaN
Number(s) ==
    IF Len(s) = 0 THEN Num(0)
    ELSE IF IsDigits(s) THEN Num(DigitsToNat(s))
    ELSE NaN

\* a property key that names an array element: "0", "1", "2", ... ("01" does not)
IsIndexKey(k) ==
    /\ Len(k) > 0
    /\ IsDigits(k)
    /\ (Len(k) = 1 \/ CharAt(k, 1) # "0")

IndexOf(ks, k) ==
    IF \E i \in 1..Len(ks) : ks[i] = k
    THEN CHOOSE i \in 1..Len(ks) : ks[i] = k
    ELSE 0

\* own-property order: index keys ascending first, then the others as inserted
InsertAt(ks, k) ==
    IF IsIndexKey(k)
    THEN Cardinality({i \in 1..Len(ks) :
                        IsIndexKey(ks[i]) /\ DigitsToNat(ks[i]) < DigitsToNat(k)}) + 1
    ELSE Len(ks) + 1

InsertSeq(s, i, e) == SubSeq(s, 1, i - 1) \o <<e>> \o SubSeq(s, i, Len(s))

\* v[key] for an object or array v and a string key (own properties and length)
GetProp(v, k) ==
    IF v.t = "array" /\ IsIndexKey(k)
    THEN IF DigitsToNat(k) < Len(v.items) THEN v.items[DigitsToNat(k) + 1] ELSE Undef
    ELSE IF v.t = "array" /\ k = "length" THEN Num(Len(v.items))
    ELSE IF IndexOf(v.ks, k) # 0 THEN v.vs[IndexOf(v.ks, k)] ELSE Undef

\* v[key] = x on a fresh copy of the object or array v
SetProp(v, k, x) ==
    IF v.t = "array" /\ IsIndexKey(k)
    THEN LET i == DigitsToNat(k) IN
         IF i < Len(v.items)
         THEN [v EXCEPT !.items[i + 1] = x]
         ELSE [v EXCEPT !.items =
                 v.items \o [j \in 1..(i - Len(v.items)) |-> Undef] \o <<x>>]
    ELSE IF IndexOf(v.ks, k) # 0
         THEN [v EXCEPT !.vs[IndexOf(v.ks, k)] = x]
         ELSE [v EXCEPT !.ks = InsertSeq(v.ks, InsertAt(v.ks, k), k),
                        !.vs = InsertSeq(v.vs, InsertAt(v.ks, k), x)]

---------------------------------------------------------------------------
(* jsonUtils: setIn, and the path reader of the controls panel *)

\* setIn rebuilding each object on the path from nothing, not from a copy
RECURSIVE setIn_NoCopy(_, _, _)
setIn_NoCopy(r, p, x) ==
    IF Len(p) = 0 THEN x
    ELSE LET head == Head(p)
             tail == Tail(p)
         IN  IF IsArray(r)
             THEN LET index == IF head.t = "number" THEN head ELSE Number(head.s)
                      current == GetProp(r, String(index))
                  IN  SetProp(r, String(index), setIn_NoCopy(current, tail, x))
             ELSE LET obj == IF r.t = "object" THEN r ELSE EmptyObj
                      key == String(head)
                      current == GetProp(obj, key)
                  IN  SetProp(EmptyObj, key, setIn_NoCopy(current, tail, x))

\* setIn creating an array where an integer index meets a missing container
RECURSIVE setIn_MakesArrays(_, _, _)
setIn_MakesArrays(r, p, x) ==
    IF Len(p) = 0 THEN x
    ELSE LET head == Head(p)
             tail == Tail(p)
         IN  IF IsArray(r)
             THEN LET index == IF head.t = "number" THEN head ELSE Number(head.s)
                      current == GetProp(r, String(index))
                  IN  SetProp(r, String(index), setIn_MakesArrays(current, tail, x))
             ELSE LET obj == IF r.t = "object" THEN r
                             ELSE IF head.t = "number" THEN Arr(<<>>)
                             ELSE EmptyObj
                      key == String(head)
                      current == GetProp(obj, key)
                  IN  SetProp(obj, key, setIn_MakesArrays(current, tail, x))

RECURSIVE setIn(_, _, _)
setIn(r, p, x) ==
    IF Len(p) = 0 THEN x
    ELSE LET head == Head(p)
             tail == Tail(p)
         IN  IF IsArray(r)
             THEN LET index == IF head.t = "number" THEN head ELSE Number(head.s)
                      current == GetProp(r, String(index))
                  IN  SetProp(r, String(index), setIn(current, tail, x))
             ELSE LET obj == IF r.t = "object" THEN r ELSE EmptyObj
                      key == String(head)
                      current == GetProp(obj, key)
                  IN  SetProp(obj, key, setIn(current, tail, x))

RECURSIVE getValueAtPath(_, _)
getValueAtPath(obj, p) ==
    IF Len(p) = 0 THEN obj
    ELSE IF obj.t \notin {"object", "array"} THEN Undef
    ELSE getValueAtPath(GetProp(obj, String(Head(p))), Tail(p))

---------------------------------------------------------------------------
(* jsonUtils: color syntax *)

UpperChars == "ABCDEFGHIJKLMNOPQRSTUVWXYZ"
LowerChars == "abcdefghijklmnopqrstuvwxyz"
HexChars == "0123456789abcdefABCDEF"

IsHexDigit(c) == \E i \in 1..Len(HexChars) : CharAt(HexChars, i) = c

\* \s of the sampled alphabet
IsSpace(c) == c \in {" ", "\t", "\n"}

LowerChar(c) ==
    IF \E i \in 1..26 : CharAt(UpperChars, i) = c
    THEN CharAt(LowerChars, CHOOSE i \in 1..26 : CharAt(UpperChars, i) = c)
    ELSE c

RECURSIVE toLowerCase(_)
toLowerCase(s) ==
    IF Len(s) = 0 THEN ""
    ELSE toLowerCase(SubSeq(s, 1, Len(s) - 1)) \o LowerChar(CharAt(s, Len(s)))

includes(s, sub) ==
    \E i \in 1..(Len(s) - Len(sub) + 1) : SubSeq(s, i, i + Len(sub) - 1) = sub

\* Regular-expression pieces: each maps the set P of positions a match may
\* continue from to the set of positions it may end at (position = index of
\* the next character, 1..Len(s)+1).
ReLit(s, P, lit) ==
    {p + Len(lit) : p \in {p \in P : p + Len(lit) - 1 <= Len(s)
                                     /\ SubSeq(s, p, p + Len(lit) - 1) = lit}}

ReSpaces(s, P) ==                       \* \s*
    {q \in 1..(Len(s) + 1) :
        \E p \in P : p <= q /\ \A i \in p..(q - 1) : IsSpace(CharAt(s, i))}

ReDigits(s, P) ==                       \* \d+
    {q \in 1..(Len(s) + 1) :
        \E p \in P : p < q /\ \A i \in p..(q - 1) : IsDigit(CharAt(s, i))}

ReAlpha(s, P) ==                        \* (0?\.\d+|1(\.0)?)
    ReDigits(s, ReLit(s, P \cup ReLit(s, P, "0"), "."))
        \cup ReLit(s, P, "1") \cup ReLit(s, ReLit(s, P, "1"), ".0")

ReChannel(s, P) ==                      \* (\s*\d+\s*,)
    ReLit(s, ReSpaces(s, ReDigits(s, ReSpaces(s, P))), ",")

\* /^#([0-9a-fA-F]{3}|[0-9a-fA-F]{4}|[0-9a-fA-F]{6}|[0-9a-fA-F]{8})$/
isHexColor(value) ==
    /\ Len(value) \in {4, 5, 7, 9}
    /\ CharAt(value, 1) = "#"
    /\ \A i \in 2..Len(value) : IsHexDigit(CharAt(value, i))

\* /^rgba?\((\s*\d+\s*,){2}\s*\d+\s*(,\s*(0?\.\d+|1(\.0)?))?\s*\)$/
isRgbaColor(value) ==
    LET p0 == ReLit(value, {1}, "rgb")
        p1 == ReLit(value, p0 \cup ReLit(value, p0, "a"), "(")
        p2 == ReChannel(value, ReChannel(value, p1))
        p3 == ReSpaces(value, ReDigits(value, ReSpaces(value, p2)))
        p4 == p3 \cup ReAlpha(value, ReSpaces(value, ReLit(value, p3, ",")))
        p5 == ReLit(value, ReSpaces(value, p4), ")")
    IN  (Len(value) + 1) \in p5

hasAlphaChannel(value) ==
    IF isHexColor(value)
    THEN (Len(value) - 1) \in {4, 8}            \* value.replace('#', '').length
    ELSE IF isRgbaColor(value)
    THEN /\ includes(toLowerCase(value), "rgba(")                   \* /rgba\(/i
         /\ ReAlpha(value, ReSpaces(value,                  \* /,\s*(...)/ found
                ReLit(value, 1..(Len(value) + 1), ","))) # {}
    ELSE FALSE

---------------------------------------------------------------------------
(* fieldDetection *)

RECURSIVE JoinDots(_)
JoinDots(p) ==
    IF Len(p) = 1 THEN String(p[1])
    ELSE JoinDots(SubSeq(p, 1, Len(p) - 1)) \o "." \o String(p[Len(p)])

makeFieldId(p) == IF Len(p) = 0 THEN "root" ELSE JoinDots(p)

RECURSIVE detectFields(_, _, _)
RECURSIVE detectItems(_, _, _, _)
RECURSIVE detectEntries(_, _, _)
RECURSIVE detectItems_FromOne(_, _, _, _)

\* array elements addressed from 1, not from 0
detectItems_FromOne(items, p, label, n) ==
    IF n = 0 THEN <<>>
    ELSE detectItems_FromOne(items, p, label, n - 1)
         \o detectFields(items[n], Append(p, Num(n)),
                         label \o "[" \o NatToString(n) \o "]")

\* value.forEach((item, index) => children.push(...detectFields(...))), up to n
detectItems(items, p, label, n) ==
    IF n = 0 THEN <<>>
    ELSE detectItems(items, p, label, n - 1)
         \o detectFields(items[n], Append(p, Num(n - 1)),
                         label \o "[" \o NatToString(n - 1) \o "]")

\* for (const [key, val] of Object.entries(obj)) children.push(...), up to n
detectEntries(obj, p, n) ==
    IF n = 0 THEN <<>>
    ELSE detectEntries(obj, p, n - 1)
         \o detectFields(obj.vs[n], Append(p, Str(obj.ks[n])), obj.ks[n])

\* detectFields letting a color value decide supportsAlpha before the label
detectFields_ValueFirst(value, p, label) ==
    LET base == [id |-> makeFieldId(p), label |-> label, path |-> p] IN
    CASE value.t = "boolean" ->
            <<base @@ [kind |-> "boolean", editable |-> TRUE, defaultValue |-> value]>>
      [] value.t = "number" ->
            <<base @@ [kind |-> "number", editable |-> TRUE, defaultValue |-> value]>>
      [] value.t = "string" ->
            LET labelLower == toLowerCase(label)
                isColorField == includes(labelLower, "color") \/ includes(labelLower, "hex")
            IN  IF isColorField \/ isHexColor(value.s) \/ isRgbaColor(value.s)
                THEN <<base @@ [kind |-> "color", editable |-> TRUE,
                                defaultValue |-> value,
                                supportsAlpha |->
                                    IF isHexColor(value.s) \/ isRgbaColor(value.s)
                                    THEN hasAlphaChannel(value.s)
                                    ELSE \/ includes(labelLower, "alpha")
                                         \/ includes(labelLower, "rgba")]>>
                ELSE <<base @@ [kind |-> "string", editable |-> TRUE,
                                defaultValue |-> value]>>
      [] value.t = "null" ->
            <<base @@ [kind |-> "string", editable |-> TRUE, defaultValue |-> Str("")]>>
      [] value.t = "array" ->
            <<base @@ [kind |-> "array", editable |-> FALSE,
                       children |-> detectItems(value.items, p, label, Len(value.items))]>>
      [] OTHER ->
            <<base @@ [kind |-> "object", editable |-> FALSE,
                       children |-> detectEntries(value, p, Len(value.ks))]>>

detectFields(value, p, label) ==
    LET base == [id |-> makeFieldId(p), label |-> label, path |-> p] IN
    CASE value.t = "boolean" ->
            <<base @@ [kind |-> "boolean", editable |-> TRUE, defaultValue |-> value]>>
      [] value.t = "number" ->
            <<base @@ [kind |-> "number", editable |-> TRUE, defaultValue |-> value]>>
      [] value.t = "string" ->
            LET labelLower == toLowerCase(label)
                isColorField == includes(labelLower, "color") \/ includes(labelLower, "hex")
            IN  IF isColorField \/ isHexColor(value.s) \/ isRgbaColor(value.s)
                THEN <<base @@ [kind |-> "color", editable |-> TRUE,
                                defaultValue |-> value,
                                supportsAlpha |->
                                    \/ hasAlphaChannel(value.s)
                                    \/ /\ isColorField
                                       /\ \/ includes(labelLower, "alpha")
                                          \/ includes(labelLower, "rgba")]>>
                ELSE <<base @@ [kind |-> "string", editable |-> TRUE,
                                defaultValue |-> value]>>
      [] value.t = "null" ->
            <<base @@ [kind |-> "string", editable |-> TRUE, defaultValue |-> Str("")]>>
      [] value.t = "array" ->
            <<base @@ [kind |-> "array", editable |-> FALSE,
                       children |-> detectItems(value.items, p, label, Len(value.items))]>>
      [] OTHER ->
            <<base @@ [kind |-> "object", editable |-> FALSE,
                       children |-> detectEntries(value, p, Len(value.ks))]>>

\* the first key taken as root key whatever the number of keys
detectSnippetConfigFromJson_FirstKey(v) ==
    IF v.t = "object" /\ Len(v.ks) > 0
    THEN [rootKey |-> v.ks[1], fields |-> detectFields(v.vs[1], <<>>, v.ks[1])]
    ELSE [rootKey |-> "root", fields |-> detectFields(v, <<>>, "root")]

detectSnippetConfigFromJson(v) ==
    IF v.t = "object" /\ Len(v.ks) = 1
    THEN [rootKey |-> v.ks[1], fields |-> detectFields(v.vs[1], <<>>, v.ks[1])]
    ELSE IF v.t = "object" /\ Len(v.ks) > 1
    THEN [rootKey |-> v.ks[1], fields |-> detectEntries(v, <<>>, Len(v.ks))]
    ELSE [rootKey |-> "root", fields |-> detectFields(v, <<>>, "root")]

---------------------------------------------------------------------------
(* AdminView: the field tree mutators *)

\* {...field, k1: v1, ...}: the attributes of upd over those of field
Spread(field, upd) == upd @@ field

HasChildren(field) == "children" \in DOMAIN field      \* 'children' in field
HasDefault(field) == "defaultValue" \in DOMAIN field    \* 'defaultValue' in field

\* toggleEditableInTree without the id test: every node is set
RECURSIVE toggleEditableInTree_EveryNode(_, _, _)
toggleEditableInTree_EveryNode(fields, fieldId, editable) ==
    [i \in 1..Len(fields) |->
        LET field == fields[i] IN
        IF HasChildren(field)
        THEN Spread(field, [editable |-> editable,
                            children |->
                toggleEditableInTree_EveryNode(field.children, fieldId, editable)])
        ELSE Spread(field, [editable |-> editable])]

RECURSIVE toggleEditableInTree(_, _, _)
toggleEditableInTree(fields, fieldId, editable) ==
    [i \in 1..Len(fields) |->
        LET field == fields[i] IN
        IF field.id = fieldId
        THEN Spread(field, [editable |-> editable])
        ELSE IF HasChildren(field)
        THEN Spread(field, [children |->
                toggleEditableInTree(field.children, fieldId, editable)])
        ELSE field]

\* updateDefaultInTree without the 'defaultValue' in field test
RECURSIVE updateDefaultInTree_AnyNode(_, _, _)
updateDefaultInTree_AnyNode(fields, fieldId, value) ==
    [i \in 1..Len(fields) |->
        LET field == fields[i] IN
        IF field.id = fieldId
        THEN Spread(field, [defaultValue |-> value])
        ELSE IF HasChildren(field)
        THEN Spread(field, [children |->
                updateDefaultInTree_AnyNode(field.children, fieldId, value)])
        ELSE field]

RECURSIVE updateDefaultInTree(_, _, _)
updateDefaultInTree(fields, fieldId, value) ==
    [i \in 1..Len(fields) |->
        LET field == fields[i] IN
        IF field.id = fieldId /\ HasDefault(field)
        THEN Spread(field, [defaultValue |-> value])
        ELSE IF HasChildren(field)
        THEN Spread(field, [children |->
                updateDefaultInTree(field.children, fieldId, value)])
        ELSE field]

\* updateNumberBoundsInTree without the kind test
RECURSIVE updateNumberBoundsInTree_AnyKind(_, _, _)
updateNumberBoundsInTree_AnyKind(fields, fieldId, bounds) ==
    [i \in 1..Len(fields) |->
        LET field == fields[i] IN
        IF field.id = fieldId
        THEN Spread(field, [min |-> bounds.min, max |-> bounds.max])
        ELSE IF HasChildren(field)
        THEN Spread(field, [children |->
                updateNumberBoundsInTree_AnyKind(field.children, fieldId, bounds)])
        ELSE field]

RECURSIVE updateNumberBoundsInTree(_, _, _)
updateNumberBoundsInTree(fields, fieldId, bounds) ==
    [i \in 1..Len(fields) |->
        LET field == fields[i] IN
        IF field.id = fieldId /\ field.kind = "number"
        THEN Spread(field, [min |-> bounds.min, max |-> bounds.max])
        ELSE IF HasChildren(field)
        THEN Spread(field, [children |->
                updateNumberBoundsInTree(field.children, fieldId, bounds)])
        ELSE field]

\* currentValue.replace(/\s/g, '')
RECURSIVE StripSpaces(_)
StripSpaces(s) ==
    IF Len(s) = 0 THEN ""
    ELSE StripSpaces(SubSeq(s, 1, Len(s) - 1))
         \o (IF IsSpace(CharAt(s, Len(s))) THEN "" ELSE CharAt(s, Len(s)))

\* the longest prefix of digits
RECURSIVE DigitPrefix(_)
DigitPrefix(s) ==
    IF Len(s) = 0 \/ ~IsDigit(CharAt(s, 1)) THEN ""
    ELSE CharAt(s, 1) \o DigitPrefix(SubSeq(s, 2, Len(s)))

\* parseFloat(s) || 0 for s without white space: an optional sign and the
\* digits that follow; no digits is NaN, which || turns into 0.  (Strings of
\* the sampled alphabet carry no fraction or exponent after the digits.)
parseFloatOrZero(s) ==
    LET signed == Len(s) > 0 /\ CharAt(s, 1) \in {"+", "-"}
        digits == DigitPrefix(IF signed THEN SubSeq(s, 2, Len(s)) ELSE s)
    IN  IF Len(digits) = 0 THEN Num(0)
        ELSE IF signed /\ CharAt(s, 1) = "-" THEN Num(0 - DigitsToNat(digits))
        ELSE Num(DigitsToNat(digits))

IsColorString(v) == v.t = "string" /\ (isHexColor(v.s) \/ isRgbaColor(v.s))

\* retypeField cutting an 8-digit hex color one digit short
retypeField_CutsShort(field, newType) ==
    LET currentValue == field.defaultValue IN
    CASE newType = "string" ->
            Spread(field, [kind |-> "string",
                           defaultValue |->
                               IF currentValue.t = "string" THEN currentValue
                               ELSE IF currentValue.t \in {"null", "undefined"}
                                    THEN Str("")
                                    ELSE Str(String(currentValue))])
      [] newType = "number" ->
            Spread(field, [kind |-> "number",
                           defaultValue |->
                               IF currentValue.t = "number" THEN currentValue
                               ELSE IF currentValue.t = "string"
                                    THEN parseFloatOrZero(StripSpaces(currentValue.s))
                                    ELSE Num(0),
                           min |-> Undef,
                           max |-> Undef])
      [] newType = "color-solid" ->
            Spread(field, [kind |-> "color",
                           defaultValue |->
                               IF IsColorString(currentValue)
                               THEN IF Len(currentValue.s) = 9
                                    THEN Str(SubSeq(currentValue.s, 1, 6))
                                    ELSE IF Len(currentValue.s) = 5
                                    THEN Str(SubSeq(currentValue.s, 1, 4))
                                    ELSE currentValue
                               ELSE Str("#000000"),
                           supportsAlpha |-> FALSE])
      [] OTHER ->
            Spread(field, [kind |-> "color",
                           defaultValue |->
                               IF IsColorString(currentValue)
                               THEN IF Len(currentValue.s) = 7
                                    THEN Str(currentValue.s \o "FF")
                                    ELSE IF Len(currentValue.s) = 4
                                    THEN Str(currentValue.s \o "F")
                                    ELSE IF hasAlphaChannel(currentValue.s)
                                    THEN currentValue
                                    ELSE Str(currentValue.s \o "FF")
                               ELSE Str("#000000FF"),
                           supportsAlpha |-> TRUE])

\* the field updateFieldTypeInTree puts in place of a leaf
retypeField(field, newType) ==
    LET currentValue == field.defaultValue IN
    CASE newType = "string" ->
            Spread(field, [kind |-> "string",
                           defaultValue |->
                               IF currentValue.t = "string" THEN currentValue
                               ELSE IF currentValue.t \in {"null", "undefined"}
                                    THEN Str("")
                                    ELSE Str(String(currentValue))])
      [] newType = "number" ->
            Spread(field, [kind |-> "number",
                           defaultValue |->
                               IF currentValue.t = "number" THEN currentValue
                               ELSE IF currentValue.t = "string"
                                    THEN parseFloatOrZero(StripSpaces(currentValue.s))
                                    ELSE Num(0),
                           min |-> Undef,
                           max |-> Undef])
      [] newType = "color-solid" ->
            Spread(field, [kind |-> "color",
                           defaultValue |->
                               IF IsColorString(currentValue)
                               THEN IF Len(currentValue.s) = 9
                                    THEN Str(SubSeq(currentValue.s, 1, 7))
                                    ELSE IF Len(currentValue.s) = 5
                                    THEN Str(SubSeq(currentValue.s, 1, 4))
                                    ELSE currentValue
                               ELSE Str("#000000"),
                           supportsAlpha |-> FALSE])
      [] OTHER ->
            Spread(field, [kind |-> "color",
                           defaultValue |->
                               IF IsColorString(currentValue)
                               THEN IF Len(currentValue.s) = 7
                                    THEN Str(currentValue.s \o "FF")
                                    ELSE IF Len(currentValue.s) = 4
                                    THEN Str(currentValue.s \o "F")
                                    ELSE IF hasAlphaChannel(currentValue.s)
                                    THEN currentValue
                                    ELSE Str(currentValue.s \o "FF")
                               ELSE Str("#000000FF"),
                           supportsAlpha |-> TRUE])

RECURSIVE updateFieldTypeInTree(_, _, _)
updateFieldTypeInTree(fields, fieldId, newType) ==
    [i \in 1..Len(fields) |->
        LET field == fields[i] IN
        IF field.id = fieldId /\ HasDefault(field)
        THEN retypeField(field, newType)
        ELSE IF HasChildren(field)
        THEN Spread(field, [children |->
                updateFieldTypeInTree(field.children, fieldId, newType)])
        ELSE field]

\* first node with the id, parents before children; Undef when there is none
RECURSIVE findFieldById(_, _)
findFieldById(fields, fieldId) ==
    IF Len(fields) = 0 THEN Undef
    ELSE IF Head(fields).id = fieldId THEN Head(fields)
    ELSE LET found == IF HasChildren(Head(fields))
                      THEN findFieldById(Head(fields).children, fieldId)
                      ELSE Undef
         IN  IF found # Undef THEN found ELSE findFieldById(Tail(fields), fieldId)

---------------------------------------------------------------------------
(* Sampled documents *)

SeqsUpTo(S, n) == UNION {[1..k -> S] : k \in 0..n}

\* the object JSON.parse builds from the entries ks[i]: vs[i], in source order
RECURSIVE FromEntries(_, _)
FromEntries(ks, vs) ==
    IF Len(ks) = 0 THEN EmptyObj
    ELSE SetProp(FromEntries(SubSeq(ks, 1, Len(ks) - 1), SubSeq(vs, 1, Len(vs) - 1)),
                 ks[Len(ks)], vs[Len(vs)])

KeySeqs(K, n) == {ks \in SeqsUpTo(K, n) : \A i, j \in 1..Len(ks) : i # j => ks[i] # ks[j]}

ObjectsOver(K, V, n) ==
    UNION {{FromEntries(ks, vs) : vs \in [1..Len(ks) -> V]} : ks \in KeySeqs(K, n)}

ArraysOver(V, n) == {Arr(s) : s \in SeqsUpTo(V, n)}

SetInAtoms == {Null, Num(1), Str("x")}

SetInKeys == {"a", "0"}

SetInInner ==
    SetInAtoms \cup ArraysOver({Num(1), Str("x")}, MaxLen)
               \cup ObjectsOver(SetInKeys, {Null, Num(1)}, MaxKeys)

SetInRoots ==
    SetInInner \cup {Arr(<<u>>) : u \in SetInInner}
               \cup {Arr(<<Num(1), u>>) : u \in SetInInner}
               \cup {FromEntries(<<"a">>, <<u>>) : u \in SetInInner}
               \cup {FromEntries(<<"a", "0">>, <<Num(1), u>>) : u \in SetInInner}

Segments == {Str("a"), Str("0"), Num(0), Num(1)}

Paths == SeqsUpTo(Segments, MaxPathLen)

NewValues == {Num(7), FromEntries(<<"a">>, <<Null>>)}

---------------------------------------------------------------------------
(* setIn applied to every sampled root, path and new value *)

InitSetIn ==
    /\ pc = "setIn"
    /\ root \in SetInRoots
    /\ path \in Paths
    /\ newValue \in NewValues
    /\ result = Idle
    /\ snippet = Idle /\ detected = Idle
    /\ color = Idle /\ alpha = Idle /\ hex = Idle
    /\ snippetText = Idle /\ snippetValue = Idle /\ detectedFields = Idle
    /\ rootKey = Idle /\ parseError = Idle /\ steps = 0
    /\ snippets = Idle /\ rawInput = Idle /\ inputJson = Idle
    /\ outputJson = Idle /\ fileType = Idle
    /\ original = Idle /\ modified = Idle /\ changedPaths = Idle
    /\ changedLines = Idle /\ editingId = Idle /\ duplicateRootKeyModal = Idle

CallSetIn ==
    /\ pc = "setIn"
    /\ result' = setIn(root, path, newValue)
    /\ pc' = "setIn:done"
    /\ UNCHANGED <<root, path, newValue>>
    /\ UNCHANGED <<detectVars, colorVars, adminVars, editorVars, diffVars, storeVars>>

NextSetIn == CallSetIn

SpecSetIn == InitSetIn /\ [][NextSetIn]_vars

\* two segments name the same property: property keys are strings
SameSegment(a, b) == String(a) = String(b)

IsPrefix(p, q) ==
    /\ Len(p) <= Len(q)
    /\ \A i \in 1..Len(p) : SameSegment(p[i], q[i])

\* C1: reading path p from setIn(v, p, x) gives x, whatever v holds along p.
C1_SetGetInverse ==
    pc = "setIn:done" => getValueAtPath(result, path) = newValue

---------------------------------------------------------------------------
(* detectSnippetConfigFromJson applied to every sampled document *)

DetectKeys == {"a", "b", "root", "a.b"}

DetectAtoms == {Null, Bool(TRUE), Num(1), Str("x"), Str("#fff")}

DetectInner ==
    DetectAtoms \cup ArraysOver({Null, Num(1)}, MaxLen)
                \cup ObjectsOver({"b", "root"}, {Num(1)}, MaxKeys)
                \cup {Arr(<<FromEntries(<<"b">>, <<Str("x")>>)>>),
                      FromEntries(<<"b">>, <<Arr(<<Bool(TRUE)>>)>>)}

\* strings under labels that do and do not name a color
ColorLabels == {"fillColor", "HEX", "colorAlpha", "rgbaHex", "alphaTint", "tint"}
ColorValues == {"#FF0000", "x", "#fff8", "rgb(1,2,3)", "rgba(1,2,3,0.5)"}

ColorDocs ==
    {FromEntries(<<k>>, <<Str(v)>>) : k \in ColorLabels, v \in ColorValues}
        \cup {FromEntries(<<"colors">>, <<Arr(<<Str("x"), Str("#fff8")>>)>>),
              FromEntries(<<"tint", "hexAlpha">>, <<Str("#fff8"), Str("x")>>)}

DetectDocs ==
    DetectInner
        \cup ColorDocs
        \cup {FromEntries(<<k>>, <<u>>) : k \in DetectKeys, u \in DetectInner}
        \cup UNION {{FromEntries(ks, <<u, w>>) : u \in DetectInner, w \in {Null, Num(1)}}
                        : ks \in {ks \in KeySeqs(DetectKeys, 2) : Len(ks) = 2}}
        \cup ObjectsOver(DetectKeys, {Num(1), Str("#fff")}, MaxKeys)

InitDetect ==
    /\ pc = "detect"
    /\ snippet \in DetectDocs
    /\ detected = Idle
    /\ color = Idle /\ alpha = Idle /\ hex = Idle
    /\ root = Idle /\ path = Idle /\ newValue = Idle /\ result = Idle
    /\ snippetText = Idle /\ snippetValue = Idle /\ detectedFields = Idle
    /\ rootKey = Idle /\ parseError = Idle /\ steps = 0
    /\ snippets = Idle /\ rawInput = Idle /\ inputJson = Idle
    /\ outputJson = Idle /\ fileType = Idle
    /\ original = Idle /\ modified = Idle /\ changedPaths = Idle
    /\ changedLines = Idle /\ editingId = Idle /\ duplicateRootKeyModal = Idle

CallDetect ==
    /\ pc = "detect"
    /\ detected' = detectSnippetConfigFromJson(snippet)
    /\ pc' = "detect:done"
    /\ UNCHANGED snippet
    /\ UNCHANGED <<setInVars, colorVars, adminVars, editorVars, diffVars, storeVars>>

NextDetect == CallDetect

SpecDetect == InitDetect /\ [][NextDetect]_vars

\* every node of a field forest, parents before children
RECURSIVE AllNodes(_)
AllNodes(fields) ==
    IF Len(fields) = 0 THEN <<>>
    ELSE <<Head(fields)>>
         \o (IF "children" \in DOMAIN Head(fields)
             THEN AllNodes(Head(fields).children) ELSE <<>>)
         \o AllNodes(Tail(fields))

IsLeafNode(f) == f.kind \in {"boolean", "number", "string", "color"}

Range(q) == {q[i] : i \in 1..Len(q)}

\* the paths of the boolean/number/string/null locations of a JSON value
RECURSIVE PrimitivePaths(_)
PrimitivePaths(v) ==
    IF v.t = "array"
    THEN UNION {{<<Num(i - 1)>> \o q : q \in PrimitivePaths(v.items[i])}
                    : i \in 1..Len(v.items)}
    ELSE IF v.t = "object"
    THEN UNION {{<<Str(v.ks[i])>> \o q : q \in PrimitivePaths(v.vs[i])}
                    : i \in 1..Len(v.ks)}
    ELSE {<<>>}

\* the value the field paths are relative to
DetectBase(v) == IF v.t = "object" /\ Len(v.ks) = 1 THEN v.vs[1] ELSE v

\* C3: the ids of all detected nodes, nested ones included, are pairwise
\* distinct.
C3_IdsUnique ==
    pc = "detect:done" =>
        LET nodes == AllNodes(detected.fields) IN
        \A i, j \in 1..Len(nodes) : i # j => nodes[i].id # nodes[j].id

\* C4: the field tree mirrors the value: one leaf per primitive location of
\* the base value, holding the value found there (null as ""), and one child
\* per element/property of every container, in order, at the extended path.
C4_TreeMirrorsValue ==
    pc = "detect:done" =>
        LET nodes == AllNodes(detected.fields)
            base == DetectBase(snippet)
            leaves == {i \in 1..Len(nodes) : IsLeafNode(nodes[i])}
        IN  /\ {nodes[i].path : i \in leaves} = PrimitivePaths(base)
            /\ Cardinality(leaves) = Cardinality(PrimitivePaths(base))
            /\ \A i \in leaves :
                  LET at == getValueAtPath(base, nodes[i].path) IN
                  /\ "children" \notin DOMAIN nodes[i]
                  /\ nodes[i].defaultValue = (IF at = Null THEN Str("") ELSE at)
            /\ \A i \in 1..Len(nodes) :
                  ~IsLeafNode(nodes[i]) =>
                      LET c == nodes[i]
                          at == getValueAtPath(base, c.path)
                      IN  /\ at.t = c.kind
                          /\ c.kind = "array" =>
                                /\ Len(c.children) = Len(at.items)
                                /\ \A n \in 1..Len(c.children) :
                                      c.children[n].path = Append(c.path, Num(n - 1))
                          /\ c.kind = "object" =>
                                /\ Len(c.children) = Len(at.ks)
                                /\ \A n \in 1..Len(c.children) :
                                      c.children[n].path = Append(c.path, Str(at.ks[n]))

C4_Witness ==
    /\ pc = "detect:done"
    /\ snippet.t = "object" /\ Len(snippet.ks) = 2
    /\ \E i \in 1..Len(AllNodes(detected.fields)) :
          LET f == AllNodes(detected.fields)[i] IN
          /\ f.kind = "string" /\ Len(f.path) = 2
          /\ getValueAtPath(snippet, f.path) = Null
          /\ f.path[2] = Num(1)

\* C5: root-key resolution. One key: it is the root key and the single top
\* field has path []. Several keys: one top field per key, in key order, every
\* path under it beginning with that key, the root key being the first key.
\* Scalar or array: root key "root", the single top field at path [].
C5_RootKeyResolution ==
    pc = "detect:done" =>
        LET v == snippet
            fields == detected.fields
        IN  /\ (v.t = "object" /\ Len(v.ks) = 1) =>
                  /\ detected.rootKey = v.ks[1]
                  /\ Len(fields) = 1 /\ fields[1].path = <<>>
                  /\ fields[1].label = v.ks[1]
                  /\ \A f \in Range(AllNodes(fields)) :
                        getValueAtPath(v.vs[1], f.path) # Undef
            /\ (v.t = "object" /\ Len(v.ks) > 1) =>
                  /\ detected.rootKey = v.ks[1]
                  /\ Len(fields) = Len(v.ks)
                  /\ \A i \in 1..Len(fields) :
                        /\ fields[i].path = <<Str(v.ks[i])>>
                        /\ \A f \in Range(AllNodes(<<fields[i]>>)) :
                              /\ Len(f.path) >= 1 /\ f.path[1] = Str(v.ks[i])
                              /\ getValueAtPath(v, f.path) # Undef
            /\ (v.t # "object") =>
                  /\ detected.rootKey = "root"
                  /\ Len(fields) = 1 /\ fields[1].path = <<>>
                  /\ \A f \in Range(AllNodes(fields)) :
                        getValueAtPath(v, f.path) # Undef

C5_Witness ==
    /\ pc = "detect:done"
    /\ snippet.t = "object" /\ Len(snippet.ks) = 2
    /\ detected.rootKey = "b"
    /\ Len(detected.fields) = 2
    /\ detected.fields[2].path = <<Str("a")>>

---------------------------------------------------------------------------
(* AdminView: creating a snippet (no stored snippet is being edited) *)

\* Editor text, held as what it parses to: '', text that is not JSON, or the
\* JSON text of a value (pretty-printed or as typed).
EmptyText == [kind |-> "empty"]
InvalidText == [kind |-> "invalid"]
JsonText(v, pretty) == [kind |-> "json", value |-> v, pretty |-> pretty]

\* JSON.parse(JSON.stringify(v)): array holes, undefined and NaN become null,
\* properties of an array that are not elements and undefined properties of
\* an object are dropped
RECURSIVE JsonOf(_)
JsonOf(v) ==
    IF v.t = "array"
    THEN Arr([i \in 1..Len(v.items) |->
                IF v.items[i] = Undef THEN Null ELSE JsonOf(v.items[i])])
    ELSE IF v.t = "object"
    THEN LET keep == {i \in 1..Len(v.ks) : v.vs[i] # Undef}
             nth(n) == CHOOSE i \in keep : Cardinality({j \in keep : j < i}) = n - 1
         IN  Obj([n \in 1..Cardinality(keep) |-> v.ks[nth(n)]],
                 [n \in 1..Cardinality(keep) |-> JsonOf(v.vs[nth(n)])])
    ELSE IF IsNaN(v) THEN Null
    ELSE v

prettyPrintJson(value) ==
    IF value = Undef THEN EmptyText ELSE JsonText(JsonOf(value), TRUE)

safeParseJson(text) ==
    CASE text.kind = "empty" -> [value |-> Undef, error |-> Str("Empty input")]
      [] text.kind = "invalid" -> [value |-> Undef, error |-> Str("SyntaxError")]
      [] OTHER -> [value |-> text.value, error |-> Undef]

\* !v
Falsy(v) == v \in {Undef, Null, Bool(FALSE), Num(0), NaN, Str("")}

NoFields == Null
FieldList(fields) == [t |-> "array", items |-> fields]

AdminDocs ==
    { FromEntries(<<"poiInfo">>,
                  <<FromEntries(<<"showLabels", "radius">>, <<Bool(TRUE), Num(5)>>)>>),
      FromEntries(<<"fillColor">>, <<Str("#112233FF")>>),
      FromEntries(<<"a", "b">>, <<Num(1), Str("rgb(1,2,3)")>>),
      FromEntries(<<"k">>, <<FromEntries(<<"root">>, <<Num(1)>>)>>),
      FromEntries(<<"a", "a.b">>, <<FromEntries(<<"b">>, <<Str("x")>>), Null>>),
      FromEntries(<<"a">>, <<Arr(<<Str("#fff"), Str("12")>>)>>),
      Arr(<<Null, Str("rgba(1,2,3,0.5)")>>),
      FromEntries(<<"c">>, <<Str("#1a2B")>>),
      Str("x"),
      Num(5),
      Bool(TRUE),
      EmptyObj }

AdminTexts ==
    {InvalidText, JsonText(Null, FALSE)}
        \cup {JsonText(v, FALSE) : v \in AdminDocs}

\* ids a field edit may name: those of the tree, and one no node has
RECURSIVE NodeIds(_)
NodeIds(fields) ==
    IF Len(fields) = 0 THEN {}
    ELSE {Head(fields).id}
         \cup (IF HasChildren(Head(fields)) THEN NodeIds(Head(fields).children) ELSE {})
         \cup NodeIds(Tail(fields))

AbsentId == "zz"

FieldIds(fields) == NodeIds(fields) \cup {AbsentId}

DefaultInputs == {Num(2), Str("rgb(1,2,3)")}

BoundsInputs == {[min |-> Num(0), max |-> Undef], [min |-> Num(0), max |-> Num(9)]}

FieldTypes == {"string", "number", "color-solid", "color-alpha"}

Init ==
    /\ pc = "admin"
    /\ snippetText = EmptyText
    /\ snippetValue = Undef
    /\ detectedFields = NoFields
    /\ rootKey = Null
    /\ parseError = Undef
    /\ steps = 0
    /\ root = Idle /\ path = Idle /\ newValue = Idle /\ result = Idle
    /\ snippet = Idle /\ detected = Idle
    /\ color = Idle /\ alpha = Idle /\ hex = Idle
    /\ snippets = Idle /\ rawInput = Idle /\ inputJson = Idle
    /\ outputJson = Idle /\ fileType = Idle
    /\ original = Idle /\ modified = Idle /\ changedPaths = Idle
    /\ changedLines = Idle /\ editingId = Idle /\ duplicateRootKeyModal = Idle

\* the snippet editor's onChange: the operator types or pastes text
setSnippetText(text) ==
    /\ pc = "admin"
    /\ steps < MaxSteps
    /\ snippetText' = text
    /\ steps' = steps + 1
    /\ UNCHANGED <<pc, snippetValue, detectedFields, rootKey, parseError>>
    /\ UNCHANGED <<setInVars, colorVars, detectVars, editorVars, diffVars, storeVars>>

\* the "Make Snippet" button, shown while the text is not blank
handleParseSnippet ==
    /\ pc = "admin"
    /\ steps < MaxSteps
    /\ snippetText # EmptyText
    /\ LET parsed == safeParseJson(snippetText) IN
       IF parsed.error # Undef \/ Falsy(parsed.value)
       THEN /\ parseError' = (IF parsed.error # Undef THEN parsed.error
                              ELSE Str("Invalid JSON"))
            /\ detectedFields' = NoFields
            /\ rootKey' = Null
            /\ UNCHANGED <<snippetText, snippetValue>>
       ELSE LET config == detectSnippetConfigFromJson(parsed.value) IN
            /\ parseError' = Undef
            /\ snippetText' = prettyPrintJson(parsed.value)
            /\ snippetValue' = parsed.value
            /\ detectedFields' = FieldList(config.fields)
            /\ rootKey' = Str(config.rootKey)
    /\ steps' = steps + 1
    /\ UNCHANGED <<pc, setInVars, colorVars, detectVars, editorVars, diffVars, storeVars>>

\* handleToggleEditable toggling in place a tree it shares with the store
handleToggleEditable_InPlace(fieldId, editable) ==
    /\ pc = "admin"
    /\ detectedFields # NoFields
    /\ steps < MaxSteps
    /\ detectedFields' =
            FieldList(toggleEditableInTree(detectedFields.items, fieldId, editable))
    /\ snippets' =
            IF editingId \in {Idle, Null} THEN snippets
            ELSE [i \in 1..Len(snippets) |->
                    IF snippets[i].id = editingId.s
                    THEN [snippets[i] EXCEPT !.fields =
                            toggleEditableInTree(snippets[i].fields, fieldId, editable)]
                    ELSE snippets[i]]
    /\ steps' = steps + 1
    /\ UNCHANGED <<pc, snippetText, snippetValue, rootKey, parseError>>
    /\ UNCHANGED <<rawInput, inputJson, outputJson, fileType>>
    /\ UNCHANGED <<setInVars, colorVars, detectVars, diffVars, storeVars>>

handleToggleEditable(fieldId, editable) ==
    /\ pc = "admin"
    /\ detectedFields # NoFields
    /\ steps < MaxSteps
    /\ detectedFields' =
            FieldList(toggleEditableInTree(detectedFields.items, fieldId, editable))
    /\ steps' = steps + 1
    /\ UNCHANGED <<pc, snippetText, snippetValue, rootKey, parseError>>
    /\ UNCHANGED <<setInVars, colorVars, detectVars, editorVars, diffVars, storeVars>>

\* the path handleChangeDefault writes at in the snippet value
changeDefaultPath(base, rk, targetField) ==
    LET rootLooksLikeObject ==
            /\ base.t = "object"
            /\ ~Falsy(rk)
            /\ GetProp(base, rk.s) # Undef
    IN  (IF rootLooksLikeObject THEN <<rk>> ELSE <<>>) \o targetField.path

\* what the setSnippetValue updater of handleChangeDefault returns for 'current'
changeDefaultSnippetValue(fields, current, rk, fieldId, value) ==
    LET updatedFields == updateDefaultInTree(fields, fieldId, value)
        targetField == findFieldById(updatedFields, fieldId)
    IN  IF targetField = Undef \/ Falsy(current) THEN current
        ELSE setIn(current, changeDefaultPath(current, rk, targetField), value)

handleChangeDefault(fieldId, value) ==
    /\ pc = "admin"
    /\ detectedFields # NoFields
    /\ steps < MaxSteps
    /\ LET updatedFields == updateDefaultInTree(detectedFields.items, fieldId, value)
           targetField == findFieldById(updatedFields, fieldId)
       IN  /\ detectedFields' = FieldList(updatedFields)
           /\ IF targetField = Undef \/ Falsy(snippetValue)
              THEN UNCHANGED <<snippetValue, snippetText>>
              ELSE LET updatedJson ==
                           changeDefaultSnippetValue(detectedFields.items, snippetValue,
                                                     rootKey, fieldId, value)
                   IN  /\ snippetValue' = updatedJson
                       /\ snippetText' = prettyPrintJson(updatedJson)
    /\ steps' = steps + 1
    /\ UNCHANGED <<pc, rootKey, parseError>>
    /\ UNCHANGED <<setInVars, colorVars, detectVars, editorVars, diffVars, storeVars>>

handleChangeNumberBounds(fieldId, bounds) ==
    /\ pc = "admin"
    /\ detectedFields # NoFields
    /\ steps < MaxSteps
    /\ detectedFields' =
            FieldList(updateNumberBoundsInTree(detectedFields.items, fieldId, bounds))
    /\ steps' = steps + 1
    /\ UNCHANGED <<pc, snippetText, snippetValue, rootKey, parseError>>
    /\ UNCHANGED <<setInVars, colorVars, detectVars, editorVars, diffVars, storeVars>>

handleChangeFieldType(fieldId, newType) ==
    /\ pc = "admin"
    /\ detectedFields # NoFields
    /\ steps < MaxSteps
    /\ detectedFields' =
            FieldList(updateFieldTypeInTree(detectedFields.items, fieldId, newType))
    /\ steps' = steps + 1
    /\ UNCHANGED <<pc, snippetText, snippetValue, rootKey, parseError>>
    /\ UNCHANGED <<setInVars, colorVars, detectVars, editorVars, diffVars, storeVars>>

TypeText == \E text \in AdminTexts : setSnippetText(text)

ToggleEditable ==
    /\ detectedFields # NoFields
    /\ \E fieldId \in FieldIds(detectedFields.items), editable \in BOOLEAN :
        handleToggleEditable(fieldId, editable)

ChangeDefault ==
    /\ detectedFields # NoFields
    /\ \E fieldId \in FieldIds(detectedFields.items), value \in DefaultInputs :
        handleChangeDefault(fieldId, value)

ChangeNumberBounds ==
    /\ detectedFields # NoFields
    /\ \E fieldId \in FieldIds(detectedFields.items), bounds \in BoundsInputs :
        handleChangeNumberBounds(fieldId, bounds)

ChangeFieldType ==
    /\ detectedFields # NoFields
    /\ \E fieldId \in FieldIds(detectedFields.items), newType \in FieldTypes :
        handleChangeFieldType(fieldId, newType)

Next ==
    \/ TypeText
    \/ handleParseSnippet
    \/ ToggleEditable
    \/ ChangeDefault
    \/ ChangeNumberBounds
    \/ ChangeFieldType

Spec == Init /\ [][Next]_vars

---------------------------------------------------------------------------
(* Claims about editing a detected field *)

\* the place in the snippet value that detection read field f from
FieldLocation(v, f) ==
    IF v.t = "object" /\ Len(v.ks) = 1 THEN <<Str(v.ks[1])>> \o f.path ELSE f.path

\* the field tree is the one detection gives for the current snippet value
FieldsMatchValue ==
    /\ pc = "admin"
    /\ detectedFields # NoFields
    /\ snippetValue \notin {Undef, Idle}
    /\ detectedFields.items = detectSnippetConfigFromJson(snippetValue).fields

\* C6: editing a leaf field f to x sets the value at the location f was
\* detected from to x and leaves every other location of the document as it
\* was, for single-key, multi-key and non-object snippets alike.
C6_EditWritesFieldLocation ==
    FieldsMatchValue =>
        LET nodes == AllNodes(detectedFields.items) IN
        \A i \in 1..Len(nodes), x \in DefaultInputs :
            IsLeafNode(nodes[i]) =>
                LET f == nodes[i]
                    loc == FieldLocation(snippetValue, f)
                    out == changeDefaultSnippetValue(detectedFields.items, snippetValue,
                                                     rootKey, f.id, x)
                IN  /\ getValueAtPath(out, loc) = x
                    /\ PrimitivePaths(out) = PrimitivePaths(snippetValue)
                    /\ \A q \in PrimitivePaths(snippetValue) \ {loc} :
                          getValueAtPath(out, q) = getValueAtPath(snippetValue, q)

---------------------------------------------------------------------------
(* Claims about the field-tree mutators *)

\* the trees each mutator gives for a tree and a target id, over the sampled
\* arguments
ToggleResults(tree, id) ==
    {toggleEditableInTree(tree, id, e) : e \in BOOLEAN}
DefaultResults(tree, id) ==
    {updateDefaultInTree(tree, id, x) : x \in DefaultInputs}
BoundsResults(tree, id) ==
    {updateNumberBoundsInTree(tree, id, b) : b \in BoundsInputs}
TypeResults(tree, id) ==
    {updateFieldTypeInTree(tree, id, k) : k \in FieldTypes}
MutatorResults(tree, id) ==
    ToggleResults(tree, id) \cup DefaultResults(tree, id)
        \cup BoundsResults(tree, id) \cup TypeResults(tree, id)

\* a node's attributes other than its children
OwnAttributes(node) == [k \in DOMAIN node \ {"children"} |-> node[k]]

\* 'out' has the shape, ids and paths of 'tree' and differs from it only at
\* nodes whose id is 'id'
ChangesOnlyTarget(tree, out, id) ==
    LET a == AllNodes(tree)
        b == AllNodes(out)
    IN  /\ Len(out) = Len(tree)
        /\ Len(b) = Len(a)
        /\ \A i \in 1..Len(a) :
              /\ b[i].id = a[i].id
              /\ b[i].path = a[i].path
              /\ HasChildren(b[i]) = HasChildren(a[i])
              /\ HasChildren(a[i]) => Len(b[i].children) = Len(a[i].children)
              /\ a[i].id # id => OwnAttributes(b[i]) = OwnAttributes(a[i])

\* C7: each of the four mutators changes only the node whose id is the target
\* id: every node keeps its id and path, every container keeps its children
\* in number and order, and every node with another id keeps all attributes.
C7_OnlyTargetChanges ==
    (pc = "admin" /\ detectedFields # NoFields) =>
        \A id \in FieldIds(detectedFields.items) :
            \A out \in MutatorResults(detectedFields.items, id) :
                ChangesOnlyTarget(detectedFields.items, out, id)

\* a nested leaf has been made non-editable while its sibling and its parent
\* are still editable
C7_Witness ==
    /\ pc = "admin" /\ detectedFields # NoFields
    /\ \E c \in Range(AllNodes(detectedFields.items)) :
          /\ HasChildren(c) /\ c.editable /\ Len(c.children) = 2
          /\ ~c.children[1].editable /\ c.children[2].editable
          /\ c.children[1].id # c.children[2].id
          /\ \E out \in TypeResults(detectedFields.items, c.children[2].id) :
                out # detectedFields.items

\* C8: applying a mutator twice with the same arguments gives the tree that
\* applying it once gives.
C8_MutatorsIdempotent ==
    (pc = "admin" /\ detectedFields # NoFields) =>
        LET tree == detectedFields.items IN
        \A id \in FieldIds(tree) :
            /\ \A e \in BOOLEAN :
                  LET once == toggleEditableInTree(tree, id, e)
                  IN  toggleEditableInTree(once, id, e) = once
            /\ \A x \in DefaultInputs :
                  LET once == updateDefaultInTree(tree, id, x)
                  IN  updateDefaultInTree(once, id, x) = once
            /\ \A b \in BoundsInputs :
                  LET once == updateNumberBoundsInTree(tree, id, b)
                  IN  updateNumberBoundsInTree(once, id, b) = once
            /\ \A k \in FieldTypes :
                  LET once == updateFieldTypeInTree(tree, id, k)
                  IN  updateFieldTypeInTree(once, id, k) = once

\* C9: every node of the field tree with kind boolean/number/string/color has
\* a defaultValue and no children, and every node with kind object/array has
\* children and no defaultValue.
C9_NodeShape ==
    (pc = "admin" /\ detectedFields # NoFields) =>
        \A node \in Range(AllNodes(detectedFields.items)) :
            /\ node.kind \in {"boolean", "number", "string", "color", "object", "array"}
            /\ IsLeafNode(node) => HasDefault(node) /\ ~HasChildren(node)
            /\ ~IsLeafNode(node) => HasChildren(node) /\ ~HasDefault(node)

\* a tree with a container in which a leaf has been retyped and another has
\* had its default replaced
C9_Witness ==
    /\ pc = "admin" /\ detectedFields # NoFields
    /\ \E c \in Range(AllNodes(detectedFields.items)) :
          /\ c.kind = "object" /\ Len(c.children) = 2
          /\ c.children[1].kind = "color" /\ c.children[1].defaultValue = Str("#000000FF")
          /\ c.children[2].kind = "number" /\ c.children[2].defaultValue = Num(2)

\* the nodes of the tree that carry the id
NodesWithId(tree, id) == {n \in Range(AllNodes(tree)) : n.id = id}

---------------------------------------------------------------------------
(* EditorView: composing stored snippets into the input document *)

\* v && typeof v === 'object' && !Array.isArray(v)
IsPlainObject(v) == v.t = "object"

\* key in obj, for the own keys of obj
HasKey(obj, key) == IndexOf(obj.ks, key) # 0

\* { ...a, ...b }
RECURSIVE AssignEntries(_, _, _)
AssignEntries(a, ks, vs) ==
    IF Len(ks) = 0 THEN a
    ELSE AssignEntries(SetProp(a, Head(ks), Head(vs)), Tail(ks), Tail(vs))

SpreadObjects(a, b) == AssignEntries(AssignEntries(EmptyObj, a.ks, a.vs), b.ks, b.vs)

\* delete obj[key] on a copy of obj
DeleteProp(obj, key) ==
    LET keep == {i \in 1..Len(obj.ks) : obj.ks[i] # key}
        nth(n) == CHOOSE i \in keep : Cardinality({j \in keep : j < i}) = n - 1
    IN  Obj([n \in 1..Cardinality(keep) |-> obj.ks[nth(n)]],
            [n \in 1..Cardinality(keep) |-> obj.vs[nth(n)]])

\* a stored SnippetDefinition (name, description and accordionGroup, which no
\* handler modelled here reads, are left out)
SnippetDefinition(id, ft, text, parsed, rk, fields, created, updated) ==
    [id |-> id, fileType |-> ft, snippetText |-> text, parsedSnippet |-> parsed,
     rootKey |-> rk, fields |-> fields, createdAt |-> created, updatedAt |-> updated]

\* snippets.filter((s) => !fileType || fileType === 'all' || s.fileType === fileType)
snippetsForFileType(list, ft) ==
    SelectSeq(list, LAMBDA s : ft = "" \/ ft = "all" \/ s.fileType = ft)

\* the first loop of reorderJsonBySnippets: the root keys of the listed
\* snippets that the document holds, assigned in list order
RECURSIVE reorderSnippetKeys(_, _, _)
reorderSnippetKeys(ordered, list, jsonObj) ==
    IF Len(list) = 0 THEN ordered
    ELSE LET s == Head(list) IN
         reorderSnippetKeys(
             IF s.rootKey # "" /\ HasKey(jsonObj, s.rootKey)
             THEN SetProp(ordered, s.rootKey, GetProp(jsonObj, s.rootKey))
             ELSE ordered,
             Tail(list), jsonObj)

\* the second loop: the keys that are no listed snippet's root key
RECURSIVE reorderOtherKeys(_, _, _, _)
reorderOtherKeys(ordered, list, ks, vs) ==
    IF Len(ks) = 0 THEN ordered
    ELSE reorderOtherKeys(
             IF \E i \in 1..Len(list) : list[i].rootKey = Head(ks)
             THEN ordered
             ELSE SetProp(ordered, Head(ks), Head(vs)),
             list, Tail(ks), Tail(vs))

reorderJsonBySnippets(list, json) ==
    IF Falsy(json) \/ ~IsPlainObject(json) THEN json
    ELSE reorderOtherKeys(reorderSnippetKeys(EmptyObj, list, json),
                          list, json.ks, json.vs)

\* the state of EditorView as one record, for the handlers below
EditorState ==
    [rawInput |-> rawInput, inputJson |-> inputJson, outputJson |-> outputJson,
     fileType |-> fileType, parseError |-> parseError]

\* the effect initialising outputJson on every successful parse
syncRawInput_AlwaysInit(list, st) ==
    IF st.rawInput = EmptyText
    THEN [st EXCEPT !.inputJson = Undef, !.outputJson = Undef, !.parseError = Undef]
    ELSE LET parsed == safeParseJson(st.rawInput) IN
         IF parsed.error # Undef \/ Falsy(parsed.value)
         THEN [st EXCEPT !.parseError = IF parsed.error # Undef THEN parsed.error
                                        ELSE Str("Invalid JSON"),
                         !.inputJson = Undef]
         ELSE [st EXCEPT !.parseError = Undef,
                         !.inputJson = parsed.value,
                         !.outputJson = reorderJsonBySnippets(list, parsed.value),
                         !.rawInput = prettyPrintJson(parsed.value)]

\* the effect that follows every change of rawInput
syncRawInput(list, st) ==
    IF st.rawInput = EmptyText
    THEN [st EXCEPT !.inputJson = Undef, !.outputJson = Undef, !.parseError = Undef]
    ELSE LET parsed == safeParseJson(st.rawInput) IN
         IF parsed.error # Undef \/ Falsy(parsed.value)
         THEN [st EXCEPT !.parseError = IF parsed.error # Undef THEN parsed.error
                                        ELSE Str("Invalid JSON"),
                         !.inputJson = Undef]
         ELSE [st EXCEPT !.parseError = Undef,
                         !.inputJson = parsed.value,
                         !.outputJson = IF @ = Undef
                                        THEN reorderJsonBySnippets(list, parsed.value)
                                        ELSE @,
                         !.rawInput = prettyPrintJson(parsed.value)]

\* snippetsForFileType.find((s) => s.id === snippetId); Undef when none
findSnippet(list, snippetId) ==
    IF \E i \in 1..Len(list) : list[i].id = snippetId
    THEN list[CHOOSE i \in 1..Len(list) :
                /\ list[i].id = snippetId
                /\ \A j \in 1..(i - 1) : list[j].id # snippetId]
    ELSE Undef

\* the entries of a parsed snippet whose value is not undefined
RECURSIVE definedEntries(_, _, _)
definedEntries(data, ks, vs) ==
    IF Len(ks) = 0 THEN data
    ELSE definedEntries(IF Head(vs) # Undef THEN SetProp(data, Head(ks), Head(vs))
                        ELSE data,
                        Tail(ks), Tail(vs))

\* the keys a snippet contributes to a document
snippetData(s) ==
    IF IsPlainObject(s.parsedSnippet)
    THEN IF HasKey(s.parsedSnippet, s.rootKey)
              /\ GetProp(s.parsedSnippet, s.rootKey) # Undef
         THEN SetProp(EmptyObj, s.rootKey, GetProp(s.parsedSnippet, s.rootKey))
         ELSE definedEntries(EmptyObj, s.parsedSnippet.ks, s.parsedSnippet.vs)
    ELSE SetProp(EmptyObj, s.rootKey, s.parsedSnippet)

\* handleInsertSnippetIntoInput without the test for a root key already present
handleInsertSnippetIntoInput_NoPresenceTest(store, st, snippetId) ==
    LET list == snippetsForFileType(store, st.fileType)
        s == findSnippet(list, snippetId)
    IN  IF s = Undef THEN st
        ELSE IF Falsy(s.parsedSnippet) THEN st
        ELSE LET inputBase == IF ~Falsy(st.inputJson) /\ IsPlainObject(st.inputJson)
                              THEN st.inputJson ELSE EmptyObj
             IN  IF Len(snippetData(s).ks) = 0 THEN st
                 ELSE LET orderedInput ==
                              reorderJsonBySnippets(list,
                                  SpreadObjects(inputBase, snippetData(s)))
                          outputBase ==
                              IF ~Falsy(st.outputJson) /\ IsPlainObject(st.outputJson)
                              THEN st.outputJson ELSE orderedInput
                          orderedOutput ==
                              reorderJsonBySnippets(list,
                                  SpreadObjects(outputBase, snippetData(s)))
                          newFileType ==
                              IF st.fileType = "" \/ st.fileType = "all"
                              THEN s.fileType ELSE st.fileType
                      IN  syncRawInput(snippetsForFileType(store, newFileType),
                              [st EXCEPT !.outputJson = orderedOutput,
                                         !.rawInput = prettyPrintJson(orderedInput),
                                         !.fileType = newFileType])

handleInsertSnippetIntoInput(store, st, snippetId) ==
    LET list == snippetsForFileType(store, st.fileType)
        s == findSnippet(list, snippetId)
    IN  IF s = Undef THEN st
        ELSE IF Falsy(s.parsedSnippet) THEN st
        ELSE LET inputBase == IF ~Falsy(st.inputJson) /\ IsPlainObject(st.inputJson)
                              THEN st.inputJson ELSE EmptyObj
             IN  IF HasKey(inputBase, s.rootKey) THEN st
                 ELSE IF Len(snippetData(s).ks) = 0 THEN st
                 ELSE LET orderedInput ==
                              reorderJsonBySnippets(list,
                                  SpreadObjects(inputBase, snippetData(s)))
                          outputBase ==
                              IF ~Falsy(st.outputJson) /\ IsPlainObject(st.outputJson)
                              THEN st.outputJson ELSE orderedInput
                          orderedOutput ==
                              reorderJsonBySnippets(list,
                                  SpreadObjects(outputBase, snippetData(s)))
                          newFileType ==
                              IF st.fileType = "" \/ st.fileType = "all"
                              THEN s.fileType ELSE st.fileType
                      IN  syncRawInput(snippetsForFileType(store, newFileType),
                              [st EXCEPT !.outputJson = orderedOutput,
                                         !.rawInput = prettyPrintJson(orderedInput),
                                         !.fileType = newFileType])

\* handleRemoveSnippetFromInput without the delete
handleRemoveSnippetFromInput_KeepsKey(store, st, snippetId) ==
    LET list == snippetsForFileType(store, st.fileType)
        s == findSnippet(list, snippetId)
        jsonToModify ==
            IF ~Falsy(st.outputJson) /\ IsPlainObject(st.outputJson) THEN st.outputJson
            ELSE IF ~Falsy(st.inputJson) /\ IsPlainObject(st.inputJson) THEN st.inputJson
            ELSE Null
    IN  IF s = Undef \/ jsonToModify = Null THEN st
        ELSE LET ordered == reorderJsonBySnippets(list, jsonToModify)
             IN  syncRawInput(list, [st EXCEPT !.outputJson = ordered,
                                               !.rawInput = prettyPrintJson(ordered)])

handleRemoveSnippetFromInput(store, st, snippetId) ==
    LET list == snippetsForFileType(store, st.fileType)
        s == findSnippet(list, snippetId)
        jsonToModify ==
            IF ~Falsy(st.outputJson) /\ IsPlainObject(st.outputJson) THEN st.outputJson
            ELSE IF ~Falsy(st.inputJson) /\ IsPlainObject(st.inputJson) THEN st.inputJson
            ELSE Null
    IN  IF s = Undef \/ jsonToModify = Null THEN st
        ELSE LET ordered == reorderJsonBySnippets(list, DeleteProp(jsonToModify, s.rootKey))
             IN  syncRawInput(list, [st EXCEPT !.outputJson = ordered,
                                               !.rawInput = prettyPrintJson(ordered)])

handleControlChange(st, changePath, value) ==
    IF Falsy(st.outputJson) THEN st
    ELSE [st EXCEPT !.outputJson = setIn(st.outputJson, changePath, value)]

\* isSnippetInInput(snippet)
isSnippetInInput(st, s) ==
    ~Falsy(st.inputJson) /\ IsPlainObject(st.inputJson) /\ HasKey(st.inputJson, s.rootKey)

\* the snippets whose controls are shown
activeSnippets(store, st) ==
    SelectSeq(store, LAMBDA s :
        /\ st.fileType = "all" \/ st.fileType = "" \/ s.fileType = st.fileType
        /\ isSnippetInInput(st, s))

\* the snippet handleSaveSnippet stores for a value parsed and detected as is
StoredSnippet(id, ft, v) ==
    SnippetDefinition(id, ft, prettyPrintJson(v), v,
                      detectSnippetConfigFromJson(v).rootKey,
                      detectSnippetConfigFromJson(v).fields, 0, 0)

\* the snippet it stores when the text was retyped after detection: the parsed
\* value is that of the new text, root key and fields those detected before
RetypedSnippet(id, ft, detectedFrom, v) ==
    SnippetDefinition(id, ft, JsonText(v, FALSE), v,
                      detectSnippetConfigFromJson(detectedFrom).rootKey,
                      detectSnippetConfigFromJson(detectedFrom).fields, 0, 0)

EditorStores ==
    { << StoredSnippet("s1", "config", FromEntries(<<"p">>, <<FromEntries(<<"x">>, <<Num(1)>>)>>)),
         StoredSnippet("s2", "config", FromEntries(<<"a", "b">>, <<Num(1), Str("#fff")>>)),
         StoredSnippet("s3", "settings", Arr(<<Num(1)>>)) >>,
      << StoredSnippet("s1", "config", FromEntries(<<"b">>, <<Bool(TRUE)>>)),
         RetypedSnippet("s2", "config", FromEntries(<<"a">>, <<Num(1)>>),
                        FromEntries(<<"c", "d">>, <<Num(1), Num(2)>>)),
         StoredSnippet("s3", "settings", FromEntries(<<"b">>, <<Num(2)>>)) >>,
      << StoredSnippet("s1", "config",
             FromEntries(<<"p">>, <<FromEntries(<<"x">>, <<FromEntries(<<"y">>, <<Num(1)>>)>>)>>)),
         StoredSnippet("s2", "config", FromEntries(<<"q">>, <<Arr(<<Num(1), Num(2)>>)>>)),
         StoredSnippet("s3", "settings",
             FromEntries(<<"r">>, <<Arr(<<FromEntries(<<"k">>, <<Str("t")>>)>>)>>)) >> }

EditorDocs ==
    { EmptyObj,
      FromEntries(<<"z", "p">>, <<Num(1), FromEntries(<<"x">>, <<Num(2)>>)>>),
      FromEntries(<<"0", "b", "a">>, <<Num(1), Num(2), Num(3)>>),
      Arr(<<Num(1)>>),
      Num(5) }

EditorTexts == {EmptyText, InvalidText} \cup {JsonText(v, FALSE) : v \in EditorDocs}

ControlInputs == {Num(9)}

\* ['all', ...file types of the stored snippets]
fileTypeOptions(store) == {"all"} \cup {store[i].fileType : i \in 1..Len(store)}

InitEditor ==
    /\ pc = "editor"
    /\ snippets \in EditorStores
    /\ rawInput = EmptyText
    /\ inputJson = Undef
    /\ outputJson = Undef
    /\ fileType = "all"
    /\ parseError = Undef
    /\ steps = 0
    /\ root = Idle /\ path = Idle /\ newValue = Idle /\ result = Idle
    /\ snippet = Idle /\ detected = Idle
    /\ color = Idle /\ alpha = Idle /\ hex = Idle
    /\ snippetText = Idle /\ snippetValue = Idle /\ detectedFields = Idle
    /\ rootKey = Idle
    /\ original = Idle /\ modified = Idle /\ changedPaths = Idle
    /\ changedLines = Idle /\ editingId = Idle /\ duplicateRootKeyModal = Idle

\* one handler run that leaves EditorView in state st
EditorStep(st) ==
    /\ pc = "editor"
    /\ steps < MaxSteps
    /\ rawInput' = st.rawInput
    /\ inputJson' = st.inputJson
    /\ outputJson' = st.outputJson
    /\ fileType' = st.fileType
    /\ parseError' = st.parseError
    /\ steps' = steps + 1
    /\ UNCHANGED <<pc, snippets, setInVars, colorVars, detectVars, diffVars, storeVars>>
    /\ UNCHANGED <<snippetText, snippetValue, detectedFields, rootKey>>

\* the input editor's onChange (and the Clear button, with the empty text)
setRawInput(store, st, text) ==
    syncRawInput(snippetsForFileType(store, st.fileType), [st EXCEPT !.rawInput = text])

TypeInput ==
    \E text \in EditorTexts :
        EditorStep(setRawInput(snippets, EditorState, text))

InsertSnippet ==
    \E i \in 1..Len(snippetsForFileType(snippets, fileType)) :
        EditorStep(handleInsertSnippetIntoInput(snippets, EditorState,
                        snippetsForFileType(snippets, fileType)[i].id))

RemoveSnippet ==
    \E i \in 1..Len(snippetsForFileType(snippets, fileType)) :
        LET s == snippetsForFileType(snippets, fileType)[i] IN
        /\ isSnippetInInput(EditorState, s)
        /\ EditorStep(handleRemoveSnippetFromInput(snippets, EditorState, s.id))

\* a control of an editable leaf field of a snippet present in the input
ControlChange ==
    \E i \in 1..Len(activeSnippets(snippets, EditorState)), value \in ControlInputs :
        LET s == activeSnippets(snippets, EditorState)[i] IN
        \E f \in Range(AllNodes(s.fields)) :
            /\ IsLeafNode(f) /\ f.editable
            /\ EditorStep(handleControlChange(EditorState,
                                              <<Str(s.rootKey)>> \o f.path, value))

SelectFileType ==
    \E ft \in fileTypeOptions(snippets) :
        EditorStep([EditorState EXCEPT !.fileType = ft])

NextEditor ==
    \/ TypeInput
    \/ InsertSnippet
    \/ RemoveSnippet
    \/ ControlChange
    \/ SelectFileType

SpecEditor == InitEditor /\ [][NextEditor]_vars

---------------------------------------------------------------------------
(* Claims about composing *)

\* the ids of the snippets listed for the selected file type
ListedIds == {snippetsForFileType(snippets, fileType)[i].id :
                 i \in 1..Len(snippetsForFileType(snippets, fileType))}

\* C11: inserting a snippet into the result of inserting it gives the result
\* of inserting it once, and inserting a snippet whose root key is already a
\* key of the input document changes nothing of the editor's state.
C11_InsertIdempotent ==
    pc = "editor" =>
        \A id \in ListedIds :
            LET once == handleInsertSnippetIntoInput(snippets, EditorState, id)
                s == findSnippet(snippets, id)
            IN  /\ handleInsertSnippetIntoInput(snippets, once, id) = once
                /\ isSnippetInInput(EditorState, s) => once = EditorState

\* snippet s1 (root key "p") has been inserted into a document with other
\* keys, and inserting it again finds the key present
C11_Witness ==
    /\ pc = "editor"
    /\ fileType = "config"
    /\ IsPlainObject(inputJson)
    /\ inputJson.ks = <<"0", "p", "a", "b">>
    /\ GetProp(inputJson, "p") = FromEntries(<<"x">>, <<Num(1)>>)
    /\ outputJson = inputJson
    /\ isSnippetInInput(EditorState, findSnippet(snippets, "s1"))

\* two objects with the same keys and the same value at each key
SameEntries(a, b) ==
    /\ IsPlainObject(a) /\ IsPlainObject(b)
    /\ Range(a.ks) = Range(b.ks)
    /\ \A k \in Range(a.ks) : GetProp(a, k) = GetProp(b, k)

\* input and output hold one and the same object document
HoldsOneDocument ==
    /\ pc = "editor"
    /\ IsPlainObject(inputJson)
    /\ SameEntries(outputJson, inputJson)

\* removing snippet id right after inserting it
insertThenRemove(id) ==
    handleRemoveSnippetFromInput(snippets,
        handleInsertSnippetIntoInput(snippets, EditorState, id), id)

\* C12: for an object document and a snippet whose root key is not a key of
\* it, removing the snippet from the result of inserting it gives a document
\* with exactly the keys and values of the original (key order aside).
C12_InsertRemoveIdentity ==
    HoldsOneDocument =>
        \A id \in ListedIds :
            ~HasKey(inputJson, findSnippet(snippets, id).rootKey) =>
                /\ SameEntries(insertThenRemove(id).inputJson, inputJson)
                /\ SameEntries(insertThenRemove(id).outputJson, inputJson)

\* what inserting the snippet adds is its root key alone: its parsed value
\* is an object holding the root key, or is not an object
AnchoredAtRootKey(s) ==
    IsPlainObject(s.parsedSnippet) => HasKey(s.parsedSnippet, s.rootKey)

\* C12 (amended): the same, for the snippets whose parsed value holds the
\* root key or is not an object.
C12_InsertRemoveIdentityAnchored ==
    HoldsOneDocument =>
        \A id \in ListedIds :
            LET s == findSnippet(snippets, id) IN
            (~HasKey(inputJson, s.rootKey) /\ AnchoredAtRootKey(s)) =>
                /\ SameEntries(insertThenRemove(id).inputJson, inputJson)
                /\ SameEntries(insertThenRemove(id).outputJson, inputJson)

\* the document {"0":1,"b":2,"a":3} after snippet s1 (root key "p") was
\* inserted, which selected its file type, and removed again
C12_Witness ==
    /\ HoldsOneDocument
    /\ fileType = "config"
    /\ rawInput = prettyPrintJson(inputJson)
    /\ SameEntries(inputJson, FromEntries(<<"0", "b", "a">>, <<Num(1), Num(2), Num(3)>>))
    /\ findSnippet(snippets, "s1").rootKey = "p"
    /\ HasKey(handleInsertSnippetIntoInput(snippets, EditorState, "s1").inputJson, "p")
    /\ ~HasKey(insertThenRemove("s1").inputJson, "p")

\* the root keys of the list that doc holds, in list order, each once
RECURSIVE PresentRootKeys(_, _, _)
PresentRootKeys(list, doc, seen) ==
    IF Len(list) = 0 THEN <<>>
    ELSE LET k == Head(list).rootKey IN
         IF HasKey(doc, k) /\ k \notin seen
         THEN <<k>> \o PresentRootKeys(Tail(list), doc, seen \cup {k})
         ELSE PresentRootKeys(Tail(list), doc, seen)

\* the key order the reordering is to give
CanonicalKeyOrder(list, doc) ==
    PresentRootKeys(list, doc, {})
        \o SelectSeq(doc.ks, LAMBDA k : \A i \in 1..Len(list) : list[i].rootKey # k)

\* the documents the reordering is applied to in a state
ReorderDocs == EditorDocs \cup {inputJson, outputJson}

\* C13: reorderJsonBySnippets returns an object with the keys and values of
\* the document, the root keys of the listed snippets first, in list order,
\* then the remaining keys in their original order; a document that is not
\* an object is returned unchanged.
C13_ReorderCanonical ==
    pc = "editor" =>
        \A doc \in ReorderDocs :
            LET list == snippetsForFileType(snippets, fileType)
                ordered == reorderJsonBySnippets(list, doc)
            IN  IF IsPlainObject(doc)
                THEN /\ SameEntries(ordered, doc)
                     /\ ordered.ks = CanonicalKeyOrder(list, doc)
                ELSE ordered = doc

\* C14: when the input document is an array or a scalar, inserting a snippet
\* leaves the raw input, inputJson and outputJson as they were.
C14_InsertIntoNonObjectIsNoOp ==
    (pc = "editor" /\ inputJson # Undef /\ ~IsPlainObject(inputJson)) =>
        \A id \in ListedIds :
            LET after == handleInsertSnippetIntoInput(snippets, EditorState, id)
            IN  /\ after.rawInput = rawInput
                /\ after.inputJson = inputJson
                /\ after.outputJson = outputJson

---------------------------------------------------------------------------
(* Claims about retyping a field as a color *)

\* the leaves that carry the id in the tree updateFieldTypeInTree returns
RetypedLeaves(tree, id, newType) ==
    {n \in NodesWithId(updateFieldTypeInTree(tree, id, newType), id) : HasDefault(n)}

\* a string value that is a hex or rgb()/rgba() color
IsRecognizedColor(v) == v.t = "string" /\ (isHexColor(v.s) \/ isRgbaColor(v.s))

\* C15: after 'color-solid' the target leaf has kind color, supportsAlpha
\* false and a recognized color without alpha channel as default; after
\* 'color-alpha' it has kind color, supportsAlpha true and a recognized color
\* with alpha channel as default, whatever the default was before.
C15_ColorRetypeResult ==
    (pc = "admin" /\ detectedFields # NoFields) =>
        \A id \in NodeIds(detectedFields.items) :
            /\ \A n \in RetypedLeaves(detectedFields.items, id, "color-solid") :
                  /\ n.kind = "color" /\ n.supportsAlpha = FALSE
                  /\ IsRecognizedColor(n.defaultValue)
                  /\ ~hasAlphaChannel(n.defaultValue.s)
            /\ \A n \in RetypedLeaves(detectedFields.items, id, "color-alpha") :
                  /\ n.kind = "color" /\ n.supportsAlpha = TRUE
                  /\ IsRecognizedColor(n.defaultValue)
                  /\ hasAlphaChannel(n.defaultValue.s)

\* a hex color with alpha channel: #RRGGBBAA or #RGBA
IsHexWithAlpha(v) == v.t = "string" /\ isHexColor(v.s) /\ Len(v.s) \in {5, 9}

\* the digits of a hex color with alpha channel that are not the alpha's
NonAlphaDigits(str) == IF Len(str) = 9 THEN SubSeq(str, 1, 7) ELSE SubSeq(str, 1, 4)

\* C16: a color field whose default is a hex color with alpha channel, made
\* color-solid and then color-alpha, has a hex color of the original length
\* with the non-alpha digits unchanged.
C16_SolidAlphaRoundTrip ==
    (pc = "admin" /\ detectedFields # NoFields) =>
        LET tree == detectedFields.items IN
        \A n \in Range(AllNodes(tree)) :
            (n.kind = "color" /\ IsHexWithAlpha(n.defaultValue)) =>
                LET back == updateFieldTypeInTree(
                                updateFieldTypeInTree(tree, n.id, "color-solid"),
                                n.id, "color-alpha")
                IN  \A m \in NodesWithId(back, n.id) :
                        m.path = n.path =>
                            /\ m.kind = "color"
                            /\ isHexColor(m.defaultValue.s)
                            /\ Len(m.defaultValue.s) = Len(n.defaultValue.s)
                            /\ NonAlphaDigits(m.defaultValue.s)
                                   = NonAlphaDigits(n.defaultValue.s)

\* the field detected from "#1a2B" after both kind changes were applied
C16_Witness ==
    /\ pc = "admin" /\ detectedFields # NoFields
    /\ \E n \in Range(AllNodes(detectedFields.items)) :
          /\ n.kind = "color" /\ n.supportsAlpha
          /\ n.defaultValue = Str("#1a2F")
          /\ snippetValue = FromEntries(<<"c">>, <<Str("#1a2B")>>)

---------------------------------------------------------------------------
(* jsonDiff: getChangedLines / findDifferences, and JsonCodeEditor's findDiffs *)

\* typeof v
typeof(v) ==
    IF v.t \in {"null", "object", "array"} THEN "object" ELSE v.t

\* a === b: primitives by value; two parsed containers are distinct objects
StrictEquals(a, b) == a.t \notin {"object", "array"} /\ a = b

\* path.join('.')
join(p) == IF Len(p) = 0 THEN "" ELSE JoinDots(p)

\* new Set([...Object.keys(a), ...Object.keys(b)]), in insertion order
AllKeys(a, b) == a.ks \o SelectSeq(b.ks, LAMBDA k : ~HasKey(a, k))

Returned(paths) == [threw |-> FALSE, paths |-> paths]
TypeError == [threw |-> TRUE, paths |-> {}]

\* findDifferences(original, modified, path, changedPaths): the paths it adds
\* to changedPaths, or the TypeError it throws
RECURSIVE findDifferences(_, _, _)
RECURSIVE diffKeys(_, _, _, _, _)
RECURSIVE diffItems(_, _, _, _)
\* the loop over allKeys, after its first n keys
diffKeys(origObj, modObj, p, allKeys, n) ==
    IF n = 0 THEN Returned({})
    ELSE LET before == diffKeys(origObj, modObj, p, allKeys, n - 1)
             key == allKeys[n]
             here == IF ~HasKey(origObj, key) \/ ~HasKey(modObj, key)
                     THEN Returned({join(p \o <<Str(key)>>)})
                     ELSE findDifferences(GetProp(origObj, key), GetProp(modObj, key),
                                          p \o <<Str(key)>>)
         IN  IF before.threw THEN before
             ELSE [threw |-> here.threw, paths |-> before.paths \cup here.paths]

\* the loop over the indices below maxLen, after its first n indices
diffItems(orig, mod, p, n) ==
    IF n = 0 THEN Returned({})
    ELSE LET before == diffItems(orig, mod, p, n - 1)
             i == n - 1
             here == IF i >= Len(orig.items) \/ i >= Len(mod.items)
                     THEN Returned({join(p \o <<Num(i)>>)})
                     ELSE findDifferences(orig.items[n], mod.items[n], p \o <<Num(i)>>)
         IN  IF before.threw THEN before
             ELSE [threw |-> here.threw, paths |-> before.paths \cup here.paths]

findDifferences(orig, mod, p) ==
    IF StrictEquals(orig, mod) THEN Returned({})
    ELSE IF typeof(orig) # typeof(mod) \/ IsArray(orig) # IsArray(mod)
    THEN Returned({join(p)})
    ELSE IF orig.t = "object"
    THEN IF mod.t = "null"
         THEN TypeError                  \* Object.keys(null)
         ELSE LET allKeys == AllKeys(orig, mod)
              IN  diffKeys(orig, mod, p, allKeys, Len(allKeys))
    ELSE IF IsArray(orig) /\ IsArray(mod)
    THEN LET maxLen == IF Len(orig.items) >= Len(mod.items)
                       THEN Len(orig.items) ELSE Len(mod.items)
         IN  diffItems(orig, mod, p, maxLen)
    ELSE Returned({join(p)})

PathSet(paths) == [t |-> "set", elems |-> paths]
Thrown == [t |-> "thrown"]

\* getChangedLines(original, modified): what the call leaves in changedPaths
\* and what it hands back
getChangedLines(orig, mod) ==
    IF Falsy(orig) \/ Falsy(mod)
    THEN [changedPaths |-> PathSet({}), changedLines |-> PathSet({})]
    ELSE LET found == findDifferences(orig, mod, <<>>)
         IN  IF found.threw
             THEN [changedPaths |-> PathSet(found.paths), changedLines |-> Thrown]
             ELSE [changedPaths |-> PathSet(found.paths), changedLines |-> PathSet({})]

\* orig[k] of findDiffs: undefined for a missing key or index
Member(v, k) ==
    IF v.t = "array"
    THEN IF k.t = "number" /\ k.n < Len(v.items) THEN v.items[k.n + 1] ELSE Undef
    ELSE GetProp(v, k.s)

\* findDiffs of JsonCodeEditor's findChangedRanges: the paths it adds
RECURSIVE findDiffs(_, _, _)
findDiffs(orig, mod, p) ==
    IF StrictEquals(orig, mod) THEN {}
    ELSE IF typeof(orig) # typeof(mod) \/ IsArray(orig) # IsArray(mod)
    THEN {join(p)}
    ELSE IF typeof(orig) = "object" /\ orig.t # "null" /\ mod.t # "null"
    THEN IF IsArray(orig) /\ IsArray(mod)
         THEN LET maxLen == IF Len(orig.items) >= Len(mod.items)
                            THEN Len(orig.items) ELSE Len(mod.items)
              IN  UNION {findDiffs(Member(orig, Num(i)), Member(mod, Num(i)),
                                   p \o <<Str(NatToString(i))>>) : i \in 0..(maxLen - 1)}
         ELSE UNION {findDiffs(Member(orig, Str(key)), Member(mod, Str(key)),
                               p \o <<Str(key)>>) : key \in Range(AllKeys(orig, mod))}
    ELSE {join(p)}

\* the values compared
DiffValues ==
    { FromEntries(<<"a", "b">>, <<Num(1), Num(2)>>),
      FromEntries(<<"a", "b">>, <<Num(1), Num(3)>>),
      FromEntries(<<"a">>, <<Arr(<<Num(1), Num(2)>>)>>),
      FromEntries(<<"a">>, <<Arr(<<Num(1), Num(2), Num(3)>>)>>),
      FromEntries(<<"a">>, <<FromEntries(<<"x">>, <<Num(1)>>)>>),
      FromEntries(<<"a">>, <<Null>>),
      FromEntries(<<"b">>, <<Str("1")>>),
      Arr(<<Num(1), EmptyObj>>),
      Arr(<<Num(1), Null>>),
      EmptyObj,
      Null,
      Num(1),
      Num(0) }

InitDiff ==
    /\ pc = "diff"
    /\ original \in DiffValues
    /\ modified \in DiffValues
    /\ changedPaths = Idle
    /\ changedLines = Idle
    /\ root = Idle /\ path = Idle /\ newValue = Idle /\ result = Idle
    /\ snippet = Idle /\ detected = Idle
    /\ color = Idle /\ alpha = Idle /\ hex = Idle
    /\ snippetText = Idle /\ snippetValue = Idle /\ detectedFields = Idle
    /\ rootKey = Idle /\ parseError = Idle /\ steps = 0
    /\ snippets = Idle /\ rawInput = Idle /\ inputJson = Idle
    /\ outputJson = Idle /\ fileType = Idle
    /\ editingId = Idle /\ duplicateRootKeyModal = Idle

CallGetChangedLines ==
    /\ pc = "diff"
    /\ LET call == getChangedLines(original, modified)
       IN  /\ changedPaths' = call.changedPaths
           /\ changedLines' = call.changedLines
    /\ pc' = "diffed"
    /\ UNCHANGED <<original, modified>>
    /\ UNCHANGED <<setInVars, colorVars, detectVars, adminVars, editorVars, storeVars>>

NextDiff == CallGetChangedLines

SpecDiff == InitDiff /\ [][NextDiff]_vars

---------------------------------------------------------------------------
(* Claims about the structural diff *)

ScenarioD1 == <<FromEntries(<<"a", "b">>, <<Num(1), Num(2)>>),
                FromEntries(<<"a", "b">>, <<Num(1), Num(3)>>)>>
ScenarioD2 == <<FromEntries(<<"a">>, <<Arr(<<Num(1), Num(2)>>)>>),
                FromEntries(<<"a">>, <<Arr(<<Num(1), Num(2), Num(3)>>)>>)>>

\* C17: the public diff entry point returns the set of '.'-joined changed
\* paths that the comparison of the two values gathers: nothing for equal
\* values, {"b"} and {"a.2"} for the two pairs of Scenario D.
C17_DiffReturnsChangedPaths ==
    pc = "diffed" =>
        /\ changedLines = changedPaths
        /\ original = modified => changedLines = PathSet({})
        /\ <<original, modified>> = ScenarioD1 => changedLines = PathSet({"b"})
        /\ <<original, modified>> = ScenarioD2 => changedLines = PathSet({"a.2"})

\* the paths at which a and b mismatch in type or array/object shape
RECURSIVE MismatchPaths(_, _, _)
MismatchPaths(a, b, p) ==
    IF a.t # b.t /\ {a.t, b.t} \cap {"null", "object", "array"} # {}
    THEN {join(p)}
    ELSE IF a.t = "object"
    THEN UNION {MismatchPaths(GetProp(a, k), GetProp(b, k), p \o <<Str(k)>>) :
                    k \in {k \in Range(a.ks) : HasKey(b, k)}}
    ELSE IF a.t = "array"
    THEN UNION {MismatchPaths(a.items[i], b.items[i], p \o <<Num(i - 1)>>) :
                    i \in 1..(IF Len(a.items) <= Len(b.items)
                              THEN Len(a.items) ELSE Len(b.items))}
    ELSE {}

\* C18: comparing two JSON values never throws, and every path at which they
\* mismatch in type or shape (null, object, array or primitive against
\* something else) is in the changed set, in jsonDiff and in JsonCodeEditor.
C18_DiffNeverThrows ==
    pc = "diffed" =>
        /\ changedLines # Thrown
        /\ ~findDifferences(original, modified, <<>>).threw
        /\ MismatchPaths(original, modified, <<>>)
               \subseteq findDifferences(original, modified, <<>>).paths
        /\ MismatchPaths(original, modified, <<>>)
               \subseteq findDiffs(original, modified, <<>>)

---------------------------------------------------------------------------
(* AdminView with the snippet store: editing and saving stored snippets *)

\* snippetStore.addSnippet
addSnippet(list, s) == Append(list, s)

\* snippetStore.updateSnippet
updateSnippet(list, s) ==
    [i \in 1..Len(list) |-> IF list[i].id = s.id THEN s ELSE list[i]]

\* JSON.parse(JSON.stringify(snippet.fields)): properties that hold undefined
\* are dropped, every other property is copied
RECURSIVE cloneFields(_)
cloneFields(fields) ==
    [i \in 1..Len(fields) |->
        LET field == fields[i]
            dropped == {k \in DOMAIN field \cap {"defaultValue", "min", "max"} :
                            field[k] = Undef}
        IN  [k \in DOMAIN field \ dropped |->
                IF k = "children" THEN cloneFields(field.children)
                ELSE IF k \in {"defaultValue", "min", "max"} THEN JsonOf(field[k])
                ELSE field[k]]]

\* new Date().toISOString(): later at every handler run
now == steps + 1

\* createId(): an id no stored snippet has
NewIds == {"n1", "n2"}
createId(list) == {id \in NewIds : \A i \in 1..Len(list) : list[i].id # id}

ModalClosed == [open |-> FALSE, existingSnippet |-> Null]
ModalOpen(s) == [open |-> TRUE, existingSnippet |-> s]

\* snippets.find((s) => s.rootKey === rootKey && s.fileType === fileType
\*                      && s.id !== editingId)
findDuplicate(list, rk, ft, editing) ==
    LET hit(i) == /\ list[i].rootKey = rk.s
                  /\ list[i].fileType = ft
                  /\ (editing = Null \/ list[i].id # editing.s)
    IN  IF \E i \in 1..Len(list) : hit(i)
        THEN list[CHOOSE i \in 1..Len(list) : hit(i) /\ \A j \in 1..(i - 1) : ~hit(j)]
        ELSE Undef

\* the sidebar's onSelect: a stored snippet is opened for editing
handleEditSnippetFields(s) ==
    /\ pc = "admin"
    /\ steps < MaxSteps
    /\ editingId' = Str(s.id)
    /\ snippetText' = s.snippetText
    /\ snippetValue' = s.parsedSnippet
    /\ fileType' = s.fileType
    /\ parseError' = Undef
    /\ rootKey' = Str(s.rootKey)
    /\ detectedFields' = FieldList(cloneFields(s.fields))
    /\ steps' = steps + 1
    /\ UNCHANGED <<pc, snippets, duplicateRootKeyModal>>
    /\ UNCHANGED <<rawInput, inputJson, outputJson, setInVars, colorVars, detectVars, diffVars>>

\* the "Cancel" button
handleCancelEditing ==
    /\ pc = "admin"
    /\ steps < MaxSteps
    /\ editingId' = Null
    /\ snippetText' = EmptyText
    /\ snippetValue' = Undef
    /\ detectedFields' = NoFields
    /\ rootKey' = Null
    /\ parseError' = Undef
    /\ steps' = steps + 1
    /\ UNCHANGED <<pc, duplicateRootKeyModal>>
    /\ UNCHANGED <<editorVars, setInVars, colorVars, detectVars, diffVars>>

\* the "Clear" button
handleClearSnippetEditor ==
    /\ pc = "admin"
    /\ steps < MaxSteps
    /\ editingId' = Null
    /\ detectedFields' = NoFields
    /\ rootKey' = Null
    /\ parseError' = Undef
    /\ snippetText' = EmptyText
    /\ snippetValue' = Undef
    /\ steps' = steps + 1
    /\ UNCHANGED <<pc, duplicateRootKeyModal>>
    /\ UNCHANGED <<editorVars, setInVars, colorVars, detectVars, diffVars>>

\* handleSaveSnippet adding the snippet without looking for a duplicate
handleSaveSnippet_NoDuplicateCheck ==
    /\ pc = "admin"
    /\ steps < MaxSteps
    /\ LET value == safeParseJson(snippetText).value IN
       IF detectedFields = NoFields \/ Falsy(rootKey) \/ Falsy(value)
       THEN UNCHANGED <<snippets, duplicateRootKeyModal>>
       ELSE IF ~Falsy(editingId)
       THEN LET existing == findSnippet(snippets, editingId.s) IN
            IF existing = Undef
            THEN UNCHANGED <<snippets, duplicateRootKeyModal>>
            ELSE /\ snippets' = updateSnippet(snippets,
                        SnippetDefinition(existing.id, fileType, snippetText, value,
                                          rootKey.s, detectedFields.items,
                                          existing.createdAt, now))
                 /\ UNCHANGED duplicateRootKeyModal
       ELSE /\ \E id \in createId(snippets) :
                    snippets' = addSnippet(snippets,
                        SnippetDefinition(id, fileType, snippetText, value,
                                          rootKey.s, detectedFields.items, now, now))
            /\ UNCHANGED duplicateRootKeyModal
    /\ steps' = steps + 1
    /\ UNCHANGED <<pc, adminVars_NoSteps, editingId, fileType>>
    /\ UNCHANGED <<rawInput, inputJson, outputJson, setInVars, colorVars, detectVars, diffVars>>

\* the "Save" button
handleSaveSnippet ==
    /\ pc = "admin"
    /\ steps < MaxSteps
    /\ LET value == safeParseJson(snippetText).value IN
       IF detectedFields = NoFields \/ Falsy(rootKey) \/ Falsy(value)
       THEN UNCHANGED <<snippets, duplicateRootKeyModal>>
       ELSE IF ~Falsy(editingId)
       THEN LET existing == findSnippet(snippets, editingId.s) IN
            IF existing = Undef
            THEN UNCHANGED <<snippets, duplicateRootKeyModal>>
            ELSE /\ snippets' = updateSnippet(snippets,
                        SnippetDefinition(existing.id, fileType, snippetText, value,
                                          rootKey.s, detectedFields.items,
                                          existing.createdAt, now))
                 /\ UNCHANGED duplicateRootKeyModal
       ELSE LET existingSnippetWithRootKey ==
                    findDuplicate(snippets, rootKey, fileType, editingId)
            IN  IF existingSnippetWithRootKey # Undef
                THEN /\ duplicateRootKeyModal' = ModalOpen(existingSnippetWithRootKey)
                     /\ UNCHANGED snippets
                ELSE /\ \E id \in createId(snippets) :
                            snippets' = addSnippet(snippets,
                                SnippetDefinition(id, fileType, snippetText, value,
                                                  rootKey.s, detectedFields.items, now, now))
                     /\ UNCHANGED duplicateRootKeyModal
    /\ steps' = steps + 1
    /\ UNCHANGED <<pc, adminVars_NoSteps, editingId, fileType>>
    /\ UNCHANGED <<rawInput, inputJson, outputJson, setInVars, colorVars, detectVars, diffVars>>

\* the "Replace" button of the duplicate root key dialog
handleReplaceDuplicate ==
    /\ pc = "admin"
    /\ steps < MaxSteps
    /\ LET value == safeParseJson(snippetText).value
           existing == duplicateRootKeyModal.existingSnippet
       IN  IF \/ detectedFields = NoFields \/ Falsy(rootKey)
              \/ existing = Null \/ Falsy(value)
           THEN UNCHANGED <<snippets, duplicateRootKeyModal, editingId>>
           ELSE /\ snippets' = updateSnippet(snippets,
                        SnippetDefinition(existing.id, fileType, snippetText, value,
                                          rootKey.s, detectedFields.items,
                                          existing.createdAt, now))
                /\ duplicateRootKeyModal' = ModalClosed
                /\ editingId' = Str(existing.id)
    /\ steps' = steps + 1
    /\ UNCHANGED <<pc, adminVars_NoSteps, fileType>>
    /\ UNCHANGED <<rawInput, inputJson, outputJson, setInVars, colorVars, detectVars, diffVars>>

\* the "Drop" button of the dialog, and the dialog's onClose
handleDropDuplicate ==
    /\ pc = "admin"
    /\ steps < MaxSteps
    /\ duplicateRootKeyModal' = ModalClosed
    /\ steps' = steps + 1
    /\ UNCHANGED <<pc, adminVars_NoSteps, editingId>>
    /\ UNCHANGED <<editorVars, setInVars, colorVars, detectVars, diffVars>>

\* the snippets in the store when the admin view opens
AdminStores ==
    { << StoredSnippet("s1", "config.json", FromEntries(<<"fillColor">>, <<Str("#112233FF")>>)),
         StoredSnippet("s2", "settings.json",
                       FromEntries(<<"poiInfo">>,
                           <<FromEntries(<<"showLabels", "radius">>, <<Bool(TRUE), Num(5)>>)>>)) >>,
      << StoredSnippet("s1", "config.json", FromEntries(<<"c">>, <<Str("#1a2B")>>)) >> }

InitStore ==
    /\ pc = "admin"
    /\ snippets \in AdminStores
    /\ snippetText = EmptyText
    /\ snippetValue = Undef
    /\ detectedFields = NoFields
    /\ rootKey = Null
    /\ parseError = Undef
    /\ fileType = "config.json"
    /\ editingId = Null
    /\ duplicateRootKeyModal = ModalClosed
    /\ steps = 0
    /\ root = Idle /\ path = Idle /\ newValue = Idle /\ result = Idle
    /\ snippet = Idle /\ detected = Idle
    /\ color = Idle /\ alpha = Idle /\ hex = Idle
    /\ rawInput = Idle /\ inputJson = Idle /\ outputJson = Idle
    /\ original = Idle /\ modified = Idle /\ changedPaths = Idle
    /\ changedLines = Idle

EditSnippetFields == \E i \in 1..Len(snippets) : handleEditSnippetFields(snippets[i])

\* the texts typed while the store is watched: a new root key, the root keys
\* of stored snippets, and a text that does not parse
StoreTexts ==
    { InvalidText,
      JsonText(FromEntries(<<"fillColor">>, <<Str("#112233FF")>>), FALSE),
      JsonText(FromEntries(<<"c">>, <<Str("#1a2B")>>), FALSE),
      JsonText(FromEntries(<<"fillColor">>, <<Str("#fff")>>), FALSE),
      JsonText(FromEntries(<<"radius">>, <<Num(5)>>), FALSE) }

TypeStoreText == \E text \in StoreTexts : setSnippetText(text)

\* the Save button is enabled: detectedFields && rootKey && snippetText.trim()
canSave == detectedFields # NoFields /\ ~Falsy(rootKey) /\ snippetText # EmptyText

SaveSnippet == canSave /\ handleSaveSnippet

\* the dialog covers the view while it is open
DialogClosed == ~duplicateRootKeyModal.open

NextStore ==
    \/ DialogClosed /\ TypeStoreText
    \/ DialogClosed /\ handleParseSnippet
    \/ DialogClosed /\ ToggleEditable
    \/ DialogClosed /\ ChangeDefault
    \/ DialogClosed /\ ChangeNumberBounds
    \/ DialogClosed /\ ChangeFieldType
    \/ DialogClosed /\ EditSnippetFields
    \/ DialogClosed /\ handleCancelEditing
    \/ DialogClosed /\ handleClearSnippetEditor
    \/ DialogClosed /\ SaveSnippet
    \/ ~DialogClosed /\ handleReplaceDuplicate
    \/ ~DialogClosed /\ handleDropDuplicate

SpecStore == InitStore /\ [][NextStore]_vars

---------------------------------------------------------------------------
(* Claims about the snippet store *)

\* a step of an editing session other than a save
EditsWithoutSaving ==
    \/ EditSnippetFields
    \/ ToggleEditable
    \/ ChangeDefault
    \/ ChangeNumberBounds
    \/ ChangeFieldType
    \/ handleCancelEditing
    \/ handleClearSnippetEditor

\* C19: opening a stored snippet for editing, toggling editable, changing
\* defaults, bounds and kinds, and cancelling or clearing the editor all leave
\* the snippet collection of the store, field trees included, as it was.
C19_AbandonedEditKeepsStore ==
    [][(pc = "admin" /\ EditsWithoutSaving) => snippets' = snippets]_vars

\* the editor after a stored 'settings.json' snippet was opened and abandoned
C19_Witness ==
    /\ pc = "admin" /\ snippets \in AdminStores
    /\ fileType = "settings.json"
    /\ editingId = Null /\ detectedFields = NoFields /\ snippetText = EmptyText
    /\ steps >= 3

\* the save goes through and is of a new snippet whose root key and file
\* type a stored snippet has
SavesNewDuplicate ==
    /\ detectedFields # NoFields /\ ~Falsy(rootKey)
    /\ ~Falsy(safeParseJson(snippetText).value)
    /\ Falsy(editingId)
    /\ \E i \in 1..Len(snippets) :
          snippets[i].rootKey = rootKey.s /\ snippets[i].fileType = fileType

\* C20: saving a new snippet whose rootKey and fileType a stored snippet has
\* leaves the store unchanged and opens the replace/drop decision; drop leaves
\* the store unchanged; replace changes exactly that stored snippet, which
\* keeps its id, createdAt and position, and adds no snippet.
C20_DuplicateRootKeySurfaced ==
    [][ pc = "admin" =>
        /\ (SavesNewDuplicate /\ handleSaveSnippet) =>
              /\ snippets' = snippets
              /\ duplicateRootKeyModal'.open
              /\ duplicateRootKeyModal'.existingSnippet \in Range(snippets)
              /\ duplicateRootKeyModal'.existingSnippet.rootKey = rootKey.s
              /\ duplicateRootKeyModal'.existingSnippet.fileType = fileType
        /\ (duplicateRootKeyModal.open /\ handleDropDuplicate) =>
              /\ snippets' = snippets
              /\ ~duplicateRootKeyModal'.open
        /\ (duplicateRootKeyModal.open /\ handleReplaceDuplicate) =>
              LET existing == duplicateRootKeyModal.existingSnippet IN
              /\ Len(snippets') = Len(snippets)
              /\ Cardinality({i \in 1..Len(snippets) : snippets[i].id = existing.id}) = 1
              /\ \A i \in 1..Len(snippets) :
                    IF snippets[i].id = existing.id
                    THEN /\ snippets'[i].id = snippets[i].id
                         /\ snippets'[i].createdAt = snippets[i].createdAt
                         /\ snippets'[i].fields = detectedFields.items
                         /\ snippets'[i].parsedSnippet = safeParseJson(snippetText).value
                         /\ snippets'[i] # snippets[i]
                    ELSE snippets'[i] = snippets[i]
      ]_vars

\* the decision is open for the stored snippet s1, the store as it was
C20_Witness ==
    /\ pc = "admin" /\ snippets \in AdminStores
    /\ duplicateRootKeyModal # Idle
    /\ duplicateRootKeyModal.open
    /\ duplicateRootKeyModal.existingSnippet = snippets[1]

---------------------------------------------------------------------------
(* Claims about the classification of strings *)

\* the label names a color: lowercased, it contains "color" or "hex"
IsColorLabel(label) ==
    includes(toLowerCase(label), "color") \/ includes(toLowerCase(label), "hex")

\* the value a detected node was made from
SourceValue(n) == getValueAtPath(DetectBase(snippet), n.path)

---------------------------------------------------------------------------
(* Claims about the containers setIn creates *)

\* the member setIn descends into: an array is indexed by the segment coerced
\* to a number, an object by the segment's string form
Descend(v, seg) ==
    IF IsArray(v)
    THEN GetProp(v, String(IF seg.t = "number" THEN seg ELSE Number(seg.s)))
    ELSE IF v.t = "object" THEN GetProp(v, String(seg))
    ELSE Undef

\* the value met after the first k segments of p
RECURSIVE Along(_, _, _)
Along(v, p, k) == IF k = 0 THEN v ELSE Descend(Along(v, p, k - 1), p[k])

\* C22: where the path descends through a value that is absent, null or a
\* primitive, the result holds a fresh object keyed by the next segment's
\* string form, an integer index included; an array on the path stays an
\* array, indexed by the segment coerced to a number.
C22_MissingContainersAreObjects ==
    pc = "setIn:done" =>
        \A k \in 0..(Len(path) - 1) :
            LET before == Along(root, path, k)
                after == Along(result, path, k)
            IN  /\ before.t \notin {"object", "array"} =>
                      /\ after.t = "object"
                      /\ after.ks = <<String(path[k + 1])>>
                /\ before.t = "array" =>
                      /\ after.t = "array"
                      /\ Len(after.items) >= Len(before.items)
                /\ before.t = "object" => after.t = "object"
                /\ Along(result, path, Len(path)) = newValue

\* an integer index met a missing container: {"a": {"0": x}}
C22_Witness ==
    /\ pc = "setIn:done"
    /\ path = <<Str("a"), Num(0)>>
    /\ root = EmptyObj
    /\ result = FromEntries(<<"a">>, <<FromEntries(<<"0">>, <<newValue>>)>>)

---------------------------------------------------------------------------
(* jsonUtils: convertColorToHex, and the color utilities applied to strings *)

\* the first place at or after i that holds no white space
RECURSIVE SkipSpaces(_, _)
SkipSpaces(s, i) ==
    IF i <= Len(s) /\ IsSpace(CharAt(s, i)) THEN SkipSpaces(s, i + 1) ELSE i

\* the longest run of digits and dots that starts at i: [\d.]+
RECURSIVE NumberRun(_, _)
NumberRun(s, i) ==
    IF i <= Len(s) /\ (IsDigit(CharAt(s, i)) \/ CharAt(s, i) = ".")
    THEN CharAt(s, i) \o NumberRun(s, i + 1)
    ELSE ""

\* color.match(/rgba?\((\d+)\s*,\s*(\d+)\s*,\s*(\d+)(?:,\s*([\d.]+))?\)/i) for a
\* string isRgbaColor accepts (so the only place a match can start is the
\* first): the four groups, the fourth "" when it took no part
matchRgba(s) ==
    LET i1 == IF SubSeq(s, 1, 5) = "rgba(" THEN 6 ELSE 5
        g1 == DigitPrefix(SubSeq(s, i1, Len(s)))
        c1 == SkipSpaces(s, i1 + Len(g1))
        i2 == SkipSpaces(s, c1 + 1)
        g2 == DigitPrefix(SubSeq(s, i2, Len(s)))
        c2 == SkipSpaces(s, i2 + Len(g2))
        i3 == SkipSpaces(s, c2 + 1)
        g3 == DigitPrefix(SubSeq(s, i3, Len(s)))
        j == i3 + Len(g3)
        i4 == SkipSpaces(s, j + 1)
        g4 == IF CharAt(s, j) = "," THEN NumberRun(s, i4) ELSE ""
        matched ==
            /\ Len(g1) > 0 /\ CharAt(s, c1) = ","
            /\ Len(g2) > 0 /\ CharAt(s, c2) = ","
            /\ Len(g3) > 0
            /\ IF CharAt(s, j) = ","
               THEN Len(g4) > 0 /\ CharAt(s, i4 + Len(g4)) = ")"
               ELSE CharAt(s, j) = ")"
    IN  [matched |-> matched, r |-> g1, g |-> g2, b |-> g3, a |-> g4]

\* n.toString(16)
RECURSIVE toString16(_)
toString16(n) ==
    IF n < 16 THEN CharAt(HexChars, n + 1)
    ELSE toString16(n \div 16) \o CharAt(HexChars, (n % 16) + 1)

\* s.padStart(2, '0')
padStart2(s) == IF Len(s) < 2 THEN "0" \o s ELSE s

RECURSIVE Pow10(_)
Pow10(n) == IF n = 0 THEN 1 ELSE 10 * Pow10(n - 1)

\* parseFloat of a run of digits and dots, as the fraction num/den: the
\* digits, and those after the first dot
parseFloatRun(run) ==
    LET whole == DigitPrefix(run)
        rest == SubSeq(run, Len(whole) + 1, Len(run))
        frac == IF Len(rest) > 0 /\ CharAt(rest, 1) = "."
                THEN DigitPrefix(SubSeq(rest, 2, Len(rest))) ELSE ""
        den == Pow10(Len(frac))
    IN  [num |-> (IF Len(whole) > 0 THEN DigitsToNat(whole) ELSE 0) * den
                     + (IF Len(frac) > 0 THEN DigitsToNat(frac) ELSE 0),
         den |-> den]

\* Math.round(a * 255) for a = num/den (halves round up)
roundAlpha255(a) == (2 * a.num * 255 + a.den) \div (2 * a.den)

convertColorToHex(c) ==
    IF isHexColor(c) THEN c
    ELSE IF isRgbaColor(c)
    THEN LET match == matchRgba(c) IN
         IF ~match.matched THEN c
         ELSE LET toHex(n) == padStart2(toString16(n))
                  rgb == "#" \o toHex(DigitsToNat(match.r))
                             \o toHex(DigitsToNat(match.g))
                             \o toHex(DigitsToNat(match.b))
                  a == parseFloatRun(match.a)
              IN  IF match.a # "" /\ a.num < a.den
                  THEN rgb \o padStart2(toString16(roundAlpha255(a)))
                  ELSE rgb
    ELSE c

\* the strings handed to the color utilities
ColorChannels == {"1,2,3", "255,0,0", "0,1,2", " 1 , 2 , 3", "300,0,0"}
ColorAlphas == {"", ",0.5", ", .25", ",1", ",1.0", " ,0.0"}

ColorStrings ==
    {pre \o ch \o al \o ")" :
        pre \in {"rgb(", "rgba("}, ch \in ColorChannels, al \in ColorAlphas}
      \cup {"#fff", "#FFFF", "#ff0000", "#AABBCCDD", "#ggg", "x", "",
            "rgb(1,2)", "rgba(1,2,3,2)", "rgba(1,2,3 )"}

InitColor ==
    /\ pc = "color"
    /\ color \in {Str(c) : c \in ColorStrings}
    /\ alpha = Idle
    /\ hex = Idle
    /\ root = Idle /\ path = Idle /\ newValue = Idle /\ result = Idle
    /\ snippet = Idle /\ detected = Idle
    /\ snippetText = Idle /\ snippetValue = Idle /\ detectedFields = Idle
    /\ rootKey = Idle /\ parseError = Idle /\ steps = 0
    /\ snippets = Idle /\ rawInput = Idle /\ inputJson = Idle
    /\ outputJson = Idle /\ fileType = Idle
    /\ original = Idle /\ modified = Idle /\ changedPaths = Idle
    /\ changedLines = Idle /\ editingId = Idle /\ duplicateRootKeyModal = Idle

CallHasAlphaChannel ==
    /\ pc = "color"
    /\ alpha' = Bool(hasAlphaChannel(color.s))
    /\ pc' = "hasAlphaChannel:done"
    /\ UNCHANGED <<color, hex>>
    /\ UNCHANGED <<setInVars, detectVars, adminVars, editorVars, diffVars, storeVars>>

CallConvertColorToHex ==
    /\ pc = "color"
    /\ hex' = Str(convertColorToHex(color.s))
    /\ pc' = "convertColorToHex:done"
    /\ UNCHANGED <<color, alpha>>
    /\ UNCHANGED <<setInVars, detectVars, adminVars, editorVars, diffVars, storeVars>>

NextColor == CallHasAlphaChannel \/ CallConvertColorToHex

SpecColor == InitColor /\ [][NextColor]_vars

---------------------------------------------------------------------------
(* Claims about the color utilities *)

\* the places of s after three channels, the third not yet closed
AfterThreeChannels(s) ==
    LET p0 == ReLit(s, {1}, "rgb")
        p1 == ReLit(s, p0 \cup ReLit(s, p0, "a"), "(")
    IN  ReSpaces(s, ReDigits(s, ReSpaces(s, ReChannel(s, ReChannel(s, p1)))))

\* s is an rgb()/rgba() color written with three channels
HasThreeChannels(s) ==
    (Len(s) + 1) \in ReLit(s, ReSpaces(s, AfterThreeChannels(s)), ")")

\* s is an rgb()/rgba() color written with a fourth channel
HasFourthChannel(s) ==
    (Len(s) + 1) \in
        ReLit(s, ReSpaces(s, ReAlpha(s, ReSpaces(s,
                    ReLit(s, AfterThreeChannels(s), ",")))), ")")

\* C23: hasAlphaChannel(s) is true iff s is a 4- or 8-digit hex color or an
\* rgba(...) color that has a fourth channel; it is false for every three-
\* channel rgb()/rgba() string and for every string that is no color.
C23_HasAlphaChannel ==
    pc = "hasAlphaChannel:done" =>
        alpha.b = (\/ isHexColor(color.s) /\ Len(color.s) \in {5, 9}
                   \/ /\ ReLit(color.s, {1}, "rgba(") # {}
                      /\ HasFourthChannel(color.s))

\* C24: convertColorToHex gives a 6-digit hex color for every three-channel
\* rgb()/rgba() string and an 8-digit one for every string with a fourth
\* channel (alpha 1 and inner white space included), and returns hex colors
\* and unrecognized strings unchanged; rgba(255,0,0,0.5) gives #ff000080.
C24_ConvertColorToHex ==
    pc = "convertColorToHex:done" =>
        /\ isRgbaColor(color.s) =>
              /\ isHexColor(hex.s)
              /\ HasThreeChannels(color.s) => Len(hex.s) = 7
              /\ HasFourthChannel(color.s) => Len(hex.s) = 9
        /\ ~isRgbaColor(color.s) => hex = color
        /\ color.s = "rgba(255,0,0,0.5)" => hex.s = "#ff000080"

---------------------------------------------------------------------------
(* The snippet store's operations, as the sidebar and the menu call them *)

\* snippetStore.deleteSnippet
deleteSnippet(list, id) == SelectSeq(list, LAMBDA s : s.id # id)

\* snippetStore.clearSnippets
clearSnippets(list) == << >>

\* snippetStore.updateSnippetMetadata, called by the sidebar's onMove with
\* the id and the new file type ({...s, ...update})
updateSnippetMetadata(list, id, ft) ==
    [i \in 1..Len(list) |-> IF list[i].id = id
                            THEN [list[i] EXCEPT !.fileType = ft]
                            ELSE list[i]]

\* new Map(state.snippets.map((s) => [s.id, s])).get(id): the last snippet of
\* that id, Undef when there is none
idToSnippet(list, id) ==
    IF \E i \in 1..Len(list) : list[i].id = id
    THEN list[CHOOSE i \in 1..Len(list) :
                /\ list[i].id = id
                /\ \A j \in (i + 1)..Len(list) : list[j].id # id]
    ELSE Undef

\* orderedIds.map((id) => idToSnippet.get(id)).filter((s) => !!s)
RECURSIVE lookupOrdered(_, _)
lookupOrdered(list, orderedIds) ==
    IF Len(orderedIds) = 0 THEN << >>
    ELSE LET s == idToSnippet(list, Head(orderedIds)) IN
         (IF s = Undef THEN << >> ELSE <<s>>) \o lookupOrdered(list, Tail(orderedIds))

\* the loop over state.snippets: the snippets of the file type are replaced,
\* in turn, by those of orderedSameType
placeSameType(list, ft, orderedSameType) ==
    [i \in 1..Len(list) |->
        IF list[i].fileType = ft
        THEN orderedSameType[Len(SelectSeq(SubSeq(list, 1, i),
                                           LAMBDA s : s.fileType = ft))]
        ELSE list[i]]

\* snippetStore.reorderSnippetsForFileType, the store the views import
reorderSnippetsForFileType(list, ft, orderedIds) ==
    IF ft = "all"
    THEN LET ordered == lookupOrdered(list, orderedIds) IN
         IF Len(ordered) # Len(list) THEN list ELSE ordered
    ELSE LET sameTypeIds == SelectSeq(list, LAMBDA s : s.fileType = ft)
             orderedSameType == lookupOrdered(list, orderedIds)
         IN  IF Len(orderedSameType) # Len(sameTypeIds) THEN list
             ELSE placeSameType(list, ft, orderedSameType)

\* the copy of the store in App.tsx: orderedSameType is also filtered by the
\* file type
reorderSnippetsForFileTypeFiltered(list, ft, orderedIds) ==
    IF ft = "all"
    THEN LET ordered == lookupOrdered(list, orderedIds) IN
         IF Len(ordered) # Len(list) THEN list ELSE ordered
    ELSE LET sameTypeIds == SelectSeq(list, LAMBDA s : s.fileType = ft)
             orderedSameType == SelectSeq(lookupOrdered(list, orderedIds),
                                          LAMBDA s : s.fileType = ft)
         IN  IF Len(orderedSameType) # Len(sameTypeIds) THEN list
             ELSE placeSameType(list, ft, orderedSameType)

\* parsed.forEach of handleImportSnippetsFromFile: existing is looked up in
\* the snippets of the render (seen), the store operations act on the store
RECURSIVE importEach(_, _, _, _)
importEach(list, seen, parsed, stamp) ==
    IF Len(parsed) = 0 THEN list
    ELSE LET raw == Head(parsed)
             normalized == [raw EXCEPT !.updatedAt = stamp]
         IN  importEach(
                 IF raw.id = "" \/ raw.rootKey = "" THEN list
                 ELSE IF \E i \in 1..Len(seen) : seen[i].id = raw.id
                      THEN updateSnippet(list, normalized)
                      ELSE addSnippet(list, normalized),
                 seen, Tail(parsed), stamp)

\* handleImportSnippetsFromFile; a file that holds no array raises the alert
\* and leaves the store
handleImportSnippetsFromFile(list, parsed, stamp) ==
    IF ~IsArray(parsed) THEN list
    ELSE importEach(list, list, parsed.items, stamp)

\* the store when the sidebar is shown: two file types
SidebarStores ==
    { << StoredSnippet("s1", "config.json", FromEntries(<<"a">>, <<Num(1)>>)),
         StoredSnippet("s2", "config.json", FromEntries(<<"b">>, <<Num(2)>>)),
         StoredSnippet("s3", "settings.json", FromEntries(<<"c">>, <<Num(3)>>)) >>,
      << StoredSnippet("s1", "config.json", FromEntries(<<"a">>, <<Num(1)>>)),
         StoredSnippet("s3", "settings.json", FromEntries(<<"c">>, <<Num(3)>>)),
         StoredSnippet("s2", "config.json", FromEntries(<<"b">>, <<Num(2)>>)) >> }

SidebarIds == {"s1", "s2", "s3"}
SidebarScopes == {"all", "config.json", "settings.json"}

\* the lists handed to reorderSnippetsForFileType: every list of up to three
\* ids, stored or unknown
OrderedIdLists ==
    UNION {[1..n -> SidebarIds \cup {"zz"}] : n \in 0..3}

\* the parsed contents of imported files: a stored id with a new id, a new id
\* listed twice, a record without id before a new one, and no array
ImportFiles ==
    { Arr(<< StoredSnippet("s1", "settings.json", FromEntries(<<"a">>, <<Num(7)>>)),
             StoredSnippet("n1", "config.json", FromEntries(<<"d">>, <<Num(4)>>)) >>),
      Arr(<< StoredSnippet("n2", "config.json", FromEntries(<<"e">>, <<Num(5)>>)),
             StoredSnippet("n2", "config.json", FromEntries(<<"f">>, <<Num(6)>>)) >>),
      Arr(<< StoredSnippet("", "config.json", FromEntries(<<"g">>, <<Num(8)>>)),
             StoredSnippet("n1", "settings.json", FromEntries(<<"d">>, <<Num(4)>>)) >>),
      EmptyObj }

InitSidebar ==
    /\ pc = "sidebar"
    /\ snippets \in SidebarStores
    /\ snippetText = EmptyText
    /\ snippetValue = Undef
    /\ detectedFields = NoFields
    /\ rootKey = Null
    /\ parseError = Undef
    /\ fileType = "config.json"
    /\ editingId = Null
    /\ duplicateRootKeyModal = ModalClosed
    /\ steps = 0
    /\ root = Idle /\ path = Idle /\ newValue = Idle /\ result = Idle
    /\ snippet = Idle /\ detected = Idle
    /\ color = Idle /\ alpha = Idle /\ hex = Idle
    /\ rawInput = Idle /\ inputJson = Idle /\ outputJson = Idle
    /\ original = Idle /\ modified = Idle /\ changedPaths = Idle
    /\ changedLines = Idle

\* one store operation that leaves the store as list; the form is untouched
StoreStep(list) ==
    /\ pc = "sidebar"
    /\ steps < MaxSteps
    /\ snippets' = list
    /\ steps' = steps + 1
    /\ UNCHANGED <<pc, snippetText, snippetValue, detectedFields, rootKey,
                   parseError, fileType, editingId, duplicateRootKeyModal>>
    /\ UNCHANGED <<rawInput, inputJson, outputJson, setInVars, colorVars,
                   detectVars, diffVars>>

\* the sidebar's onReorder
ReorderSnippets ==
    \E scope \in SidebarScopes, orderedIds \in OrderedIdLists :
        StoreStep(reorderSnippetsForFileType(snippets, scope, orderedIds))

\* the sidebar's onMove
MoveSnippet ==
    \E id \in SidebarIds, ft \in SidebarScopes \ {"all"} :
        StoreStep(updateSnippetMetadata(snippets, id, ft))

\* the sidebar's onDelete
DeleteSnippet ==
    \E i \in 1..Len(snippets) : StoreStep(deleteSnippet(snippets, snippets[i].id))

ImportSnippets ==
    \E parsed \in ImportFiles :
        StoreStep(handleImportSnippetsFromFile(snippets, parsed, now))

\* "Remove all snippets", confirmed: clearSnippets() and handleCancelEditing()
handleClearAllSnippets ==
    /\ pc = "sidebar"
    /\ steps < MaxSteps
    /\ Len(snippets) # 0
    /\ snippets' = clearSnippets(snippets)
    /\ editingId' = Null
    /\ snippetText' = EmptyText
    /\ snippetValue' = Undef
    /\ detectedFields' = NoFields
    /\ rootKey' = Null
    /\ parseError' = Undef
    /\ steps' = steps + 1
    /\ UNCHANGED <<pc, fileType, duplicateRootKeyModal>>
    /\ UNCHANGED <<rawInput, inputJson, outputJson, setInVars, colorVars,
                   detectVars, diffVars>>

NextSidebar ==
    \/ ReorderSnippets
    \/ MoveSnippet
    \/ DeleteSnippet
    \/ ImportSnippets
    \/ handleClearAllSnippets

SpecSidebar == InitSidebar /\ [][NextSidebar]_vars

---------------------------------------------------------------------------
(* Claims about the store's operations *)

\* no two snippets of the list have the same id
IdsDistinct(list) ==
    \A i, j \in 1..Len(list) : list[i].id = list[j].id => i = j

\* orderedIds names each snippet in scope exactly once (ids that are not in
\* scope are not counted)
NamesScopeOnce(list, scope, orderedIds) ==
    \A i \in 1..Len(list) :
        (scope = "all" \/ list[i].fileType = scope) =>
            Cardinality({j \in 1..Len(orderedIds) : orderedIds[j] = list[i].id}) = 1

\* after holds the snippets of before, each as often as before
SameSnippets(before, after) ==
    /\ Len(after) = Len(before)
    /\ \A s \in Range(before) \cup Range(after) :
          Cardinality({i \in 1..Len(after) : after[i] = s})
              = Cardinality({i \in 1..Len(before) : before[i] = s})

\* what the claim requires of the store after a reorder
OnlyPermutes(before, scope, orderedIds, after) ==
    /\ SameSnippets(before, after)
    /\ scope # "all" =>
          \A i \in 1..Len(before) :
              before[i].fileType # scope => after[i] = before[i]
    /\ ~NamesScopeOnce(before, scope, orderedIds) => after = before

\* C26: for every store with distinct ids, every scope and every list of ids,
\* reorderSnippetsForFileType leaves the same snippets in the store, each
\* once, keeps the snippets of other file types in place when the scope is a
\* file type, and leaves the store when the list does not name each snippet
\* of the scope exactly once. Stated of the store the views import and of
\* its copy in App.tsx.
C26_ReorderOnlyPermutes ==
    (pc = "sidebar" /\ IdsDistinct(snippets)) =>
        \A scope \in SidebarScopes, orderedIds \in OrderedIdLists :
            /\ OnlyPermutes(snippets, scope, orderedIds,
                            reorderSnippetsForFileType(snippets, scope, orderedIds))
            /\ OnlyPermutes(snippets, scope, orderedIds,
                            reorderSnippetsForFileTypeFiltered(snippets, scope, orderedIds))

\* C27: no two snippets in the store have the same id.
C27_StoreIdsUnique ==
    pc \in {"sidebar", "admin"} => IdsDistinct(snippets)

---------------------------------------------------------------------------
(* ControlsPanel: the value each control shows *)

\* typeof of a JSON value, as the controls test it
typeofValue(v) ==
    CASE v.t = "boolean" -> "boolean"
      [] v.t \in {"number", "NaN"} -> "number"
      [] v.t = "string" -> "string"
      [] v.t = "undefined" -> "undefined"
      [] OTHER -> "object"

\* the value a leaf control shows: the actual value when it has the type of
\* the control, the field's default otherwise (a color control shows '' for
\* a falsy color)
leafShown(field, actualValue) ==
    LET wanted == IF field.kind = "color" THEN "string" ELSE field.kind
        current == IF typeofValue(actualValue) = wanted THEN actualValue
                   ELSE IF "defaultValue" \in DOMAIN field THEN field.defaultValue
                   ELSE Undef
    IN  IF field.kind = "color" /\ Falsy(current) THEN Str("") ELSE current

\* the value an item of a list of primitives shows
itemShown(child, arrayItemValue) ==
    LET actualItemValue == IF arrayItemValue # Undef THEN arrayItemValue
                           ELSE IF "defaultValue" \in DOMAIN child
                                THEN child.defaultValue ELSE Undef
    IN  IF typeofValue(actualItemValue) = child.kind THEN actualItemValue
        ELSE CASE child.kind = "string" -> Str("")
               [] child.kind = "number" -> Num(0)
               [] OTHER -> Bool(FALSE)

\* arrayValue[index], undefined when arrayValue is no array
itemAt(arrayValue, index) ==
    IF IsArray(arrayValue) /\ index <= Len(arrayValue.items)
    THEN arrayValue.items[index] ELSE Undef

\* FieldControlsNode and ArrayFieldControls: the controls rendered for a
\* field, each with the path its onChange reports and the value it shows
RECURSIVE FieldControlsNode(_, _)
RECURSIVE ArrayFieldControls(_, _)
FieldControlsNode(field, currentValue) ==
    LET actualValue == getValueAtPath(currentValue, field.path) IN
    IF IsLeafNode(field)
    THEN IF field.editable
         THEN {[id |-> field.id, path |-> field.path,
                shown |-> leafShown(field, actualValue)]}
         ELSE {}
    ELSE IF "children" \in DOMAIN field /\ field.kind = "array"
    THEN ArrayFieldControls(field, actualValue)
    ELSE IF "children" \in DOMAIN field /\ field.kind = "object"
    THEN UNION {FieldControlsNode(field.children[i], actualValue)
                   : i \in 1..Len(field.children)}
    ELSE {}

ArrayFieldControls(field, currentValue) ==
    LET arrayValue == getValueAtPath(currentValue, field.path)
        isSimplePrimitiveArray ==
            \A i \in 1..Len(field.children) :
                field.children[i].kind \in {"string", "number", "boolean"}
    IN  IF isSimplePrimitiveArray
        THEN {[id |-> field.children[i].id,
               path |-> field.path \o <<Num(i - 1)>>,
               shown |-> itemShown(field.children[i], itemAt(arrayValue, i))]
                 : i \in 1..Len(field.children)}
        ELSE UNION {
                 LET child == field.children[i]
                     arrayItemValue == itemAt(arrayValue, i)
                 IN  IF "children" \in DOMAIN child
                     THEN UNION {FieldControlsNode(child.children[k], arrayItemValue)
                                    : k \in 1..Len(child.children)}
                     ELSE FieldControlsNode(child, arrayItemValue)
                 : i \in 1..Len(field.children)}

\* FieldControlsRoot: the controls of a snippet over the output document
FieldControlsRoot(s, currentJson) ==
    LET rootData == IF ~Falsy(currentJson) /\ IsPlainObject(currentJson)
                       THEN GetProp(currentJson, s.rootKey) ELSE Undef
    IN  UNION {FieldControlsNode(s.fields[i], rootData) : i \in 1..Len(s.fields)}

---------------------------------------------------------------------------
(* Claims about the editor's raw-input effect *)

\* C25: outputJson is initialised from the raw input once. When outputJson is
\* set, typing a raw input that is not empty leaves outputJson as it is,
\* whether the text parses or not; a text that does not parse clears
\* inputJson and sets the parse error; the empty raw input resets inputJson,
\* outputJson and the parse error to undefined.
C25_OutputInitialisedOnce ==
    pc = "editor" =>
        \A text \in EditorTexts :
            LET after == setRawInput(snippets, EditorState, text) IN
            /\ text = EmptyText =>
                  /\ after.inputJson = Undef
                  /\ after.outputJson = Undef
                  /\ after.parseError = Undef
            /\ (text # EmptyText /\ outputJson # Undef) =>
                  after.outputJson = outputJson
            /\ (text # EmptyText /\ safeParseJson(text).error # Undef) =>
                  /\ after.inputJson = Undef
                  /\ after.parseError # Undef
                  /\ after.outputJson = outputJson

\* a control edit of p.x is in outputJson, and a text that does not parse was
\* typed afterwards
C25_Witness ==
    /\ pc = "editor"
    /\ outputJson = FromEntries(<<"p", "z">>,
                                <<FromEntries(<<"x">>, <<Num(9)>>), Num(1)>>)
    /\ inputJson = Undef
    /\ parseError # Undef

---------------------------------------------------------------------------
(* Claims about the controls *)

\* the values a control of the kind can report
TypedInputs(kind) ==
    CASE kind = "number" -> {Num(9)}
      [] kind = "string" -> {Str("u")}
      [] kind = "boolean" -> {Bool(TRUE), Bool(FALSE)}
      [] OTHER -> {Str("#abcdef")}

\* the editable leaves of a snippet's field tree
EditableLeaves(s) == {f \in Range(AllNodes(s.fields)) : IsLeafNode(f) /\ f.editable}

\* C28: for every active snippet and every editable leaf f, whatever its
\* depth, after a control change of f to a value x of its kind the output
\* document holds x at the root key followed by f.path, and the control the
\* panel renders for f over that document shows x.
C28_ControlsReadBack ==
    (pc = "editor" /\ ~Falsy(outputJson)) =>
        \A s \in Range(activeSnippets(snippets, EditorState)) :
            \A f \in EditableLeaves(s) :
                \A x \in TypedInputs(f.kind) :
                    LET out == handleControlChange(EditorState,
                                   <<Str(s.rootKey)>> \o f.path, x).outputJson
                    IN  /\ getValueAtPath(out, <<Str(s.rootKey)>> \o f.path) = x
                        /\ \E c \in FieldControlsRoot(s, out) :
                              c.id = f.id /\ c.shown = x

---------------------------------------------------------------------------
(* Claims about the field tree and the snippet preview *)

\* every leaf's default is the value at the leaf's location in the snippet
\* value, and the snippet text is a text of that value
TreeMatchesPreview(fields, value, text) ==
    /\ fields # NoFields
    /\ value \notin {Undef, Idle}
    /\ \A f \in Range(AllNodes(fields.items)) :
          IsLeafNode(f) =>
              /\ "defaultValue" \in DOMAIN f
              /\ f.defaultValue = getValueAtPath(value, FieldLocation(value, f))
    /\ safeParseJson(text).value = value

\* C29: a parse that detects fields leaves the field tree and the snippet
\* preview consistent, and a default change or a kind change made while they
\* are consistent leaves them consistent.
C29_TreeMatchesPreview ==
    [][/\ (handleParseSnippet /\ detectedFields' # NoFields) =>
              TreeMatchesPreview(detectedFields', snippetValue', snippetText')
       /\ (/\ TreeMatchesPreview(detectedFields, snippetValue, snippetText)
           /\ ChangeDefault \/ ChangeFieldType) =>
              TreeMatchesPreview(detectedFields', snippetValue', snippetText')]_vars

---------------------------------------------------------------------------
(* Claims about the Min and Max inputs of a number field *)

\* field.min and field.max, undefined when the field has none
FieldMin(field) == IF "min" \in DOMAIN field THEN field.min ELSE Undef
FieldMax(field) == IF "max" \in DOMAIN field THEN field.max ELSE Undef

\* what the Min and Max inputs report: '' when cleared, a number otherwise
BoundInputs == {Str(""), Num(3)}

\* the bounds the Min input's onChange hands to onChangeNumberBounds; a
\* property the object literal leaves out reads as undefined
minInputBounds(field, value) ==
    IF value = Str("") THEN [min |-> Undef, max |-> Undef]
    ELSE [min |-> value, max |-> FieldMax(field)]

\* the bounds the Max input's onChange hands to onChangeNumberBounds
maxInputBounds(field, value) ==
    IF value = Str("") THEN [min |-> Undef, max |-> Undef]
    ELSE [min |-> FieldMin(field), max |-> value]

\* C30: for every number field of the tree, setting or clearing Min through
\* its input leaves the field's max as it was, and setting or clearing Max
\* leaves its min as it was.
C30_BoundsOneAtATime ==
    (pc = "admin" /\ detectedFields # NoFields) =>
        LET tree == detectedFields.items
            nodes == AllNodes(tree)
        IN  \A i \in 1..Len(nodes), value \in BoundInputs :
                nodes[i].kind = "number" =>
                    LET f == nodes[i]
                        afterMin == AllNodes(updateNumberBoundsInTree(
                                        tree, f.id, minInputBounds(f, value)))[i]
                        afterMax == AllNodes(updateNumberBoundsInTree(
                                        tree, f.id, maxInputBounds(f, value)))[i]
                    IN  /\ FieldMax(afterMin) = FieldMax(f)
                        /\ FieldMin(afterMax) = FieldMin(f)

=============================================================================
